---- MODULE Spec2Model ----
(***************************************************************************)
(* Halley Art (halley-fractal-vue.js): the view state of the HalleyFractal *)
(* component, the render passes started by renderFractal, the timer queue  *)
(* on which a pass yields between chunks, and the colour mapper.           *)
(*                                                                         *)
(* Strings: the source's formula keys are spelled in ASCII here            *)
(* ("z^3 - 1" for the key written with a superscript three, "*" for the    *)
(* middle dot).                                                            *)
(* Numbers: view bounds are exact rationals [n, d]; the source uses IEEE   *)
(* doubles.  The rounding of the double arithmetic is modelled for the     *)
(* progress percentage; the colour channels are computed exactly (see the  *)
(* colour mapper).                                                         *)
(***************************************************************************)
EXTENDS Integers, Sequences, FiniteSets, TLC

(***************************************************************************)
(* Bounds of the model.                                                    *)
(***************************************************************************)
\* user changes (watcher triggers) after the component is mounted
MaxRequests == 1
\* how far past maxIterValue the iteration counts given to getColor go
ColorExcess == 2

(***************************************************************************)
(* Catalogues (lines 9-21) and the function registry (lines 359-589).      *)
(***************************************************************************)
VALID_FORMULAS ==
  { "z^3 - 1", "z^4 - 1", "z^5 - 1", "z^6 - 1", "z^7 - 1", "z^8 - 1", "z^12 - 1",
    "z^3 - 0.5", "z^4 - 2", "z^4 + z^2 - 1", "z^5 + z - 1", "z^3 - z", "z^5 - z^2",
    "z^5 - z^3", "z^6 + z^3 - 1",
    "z^3 + (0.3+0.5i)", "z^3 + (-0.2+0.8i)", "z^3 + (1+i)", "z^3 + (0.5+0.2i)",
    "z^4 + (0.2+0.4i)",
    "(z^2 + 1)/(z^3 - 1)", "(z^3 - 2)/(z - 1)",
    "sin(z)", "cos(z) - 1", "exp(z) - 1", "sinh(z) - 1", "z^3 + sin(z)",
    "sin(z)*exp(z) - 1", "z^4 + exp(-z)", "sin(z^2) - 1", "z*exp(z) - 1" }

VALID_COLOR_SCHEMES ==
  { "rainbow", "fire", "ocean", "neon", "plasma", "viridis", "sunset", "copper",
    "aurora", "cyberpunk", "marin", "grayscale", "hsv-8", "hsv-16", "hsv-32" }

VALID_ASPECT_RATIOS == { "1:1", "4:3", "16:9", "21:9", "9:16" }

\* the own keys of the object literal `functions`
FunctionKeys ==
  { "z^3 - 1", "z^4 - 1", "z^5 - 1", "z^6 - 1", "z^7 - 1", "z^8 - 1", "z^12 - 1",
    "z^3 - 0.5", "z^4 - 2",
    "z^3 + (0.3+0.5i)", "z^3 + (-0.2+0.8i)", "z^3 + (1+i)", "z^3 + (0.5+0.2i)",
    "z^4 + (0.2+0.4i)",
    "z^4 + z^2 - 1", "z^5 + z - 1", "z^3 - z", "z^5 - z^2", "z^5 - z^3",
    "z^6 + z^3 - 1",
    "(z^2 + 1)/(z^3 - 1)", "(z^3 - 2)/(z - 1)",
    "sin(z)", "cos(z) - 1", "exp(z) - 1", "sinh(z) - 1", "z^3 + sin(z)",
    "sin(z)*exp(z) - 1", "z^4 + exp(-z)", "sin(z^2) - 1", "z*exp(z) - 1" }

\* `functions` is a plain object literal, so a property read also finds the
\* properties it inherits from Object.prototype
ObjectPrototypeKeys ==
  { "constructor", "toString", "valueOf", "hasOwnProperty", "__proto__" }

Undefined == [kind |-> "undefined"]

\* functions[key] (line 757): the registry entry, an inherited property (an
\* object or function without f, df, d2f), or undefined
functions(key) ==
  IF key \in FunctionKeys THEN [kind |-> "entry", key |-> key]
  ELSE IF key \in ObjectPrototypeKeys THEN [kind |-> "inherited", key |-> key]
  ELSE Undefined

\* JavaScript truthiness of a value read from `functions`
Truthy(v) == v.kind # "undefined"

(***************************************************************************)
(* Exact rationals [n, d], d > 0, in lowest terms.                         *)
(***************************************************************************)
Abs(x) == IF x < 0 THEN -x ELSE x
Max(a, b) == IF a > b THEN a ELSE b
Min(a, b) == IF a < b THEN a ELSE b

RECURSIVE Gcd(_, _)
Gcd(a, b) == IF b = 0 THEN a ELSE Gcd(b, a % b)

Rat(n, d) ==
  LET s == IF d < 0 THEN -1 ELSE 1
      g == Gcd(Abs(n), Abs(d))
  IN  [n |-> (s * n) \div g, d |-> (s * d) \div g]

RInt(k) == [n |-> k, d |-> 1]
\* common factors are cancelled before multiplying, to stay within 32 bits
RAdd(a, b) ==
  LET g == Gcd(a.d, b.d)
  IN  Rat(a.n * (b.d \div g) + b.n * (a.d \div g), (a.d \div g) * b.d)
RNeg(a) == [n |-> -a.n, d |-> a.d]
RSub(a, b) == RAdd(a, RNeg(b))
RMul(a, b) ==
  LET g1 == Gcd(Abs(a.n), b.d)
      g2 == Gcd(Abs(b.n), a.d)
  IN  Rat((a.n \div g1) * (b.n \div g2), (a.d \div g2) * (b.d \div g1))
RDiv(a, b) == RMul(a, Rat(b.d, b.n))
RLess(a, b) == a.n * b.d < b.n * a.d
RAbs(a) == [n |-> Abs(a.n), d |-> a.d]
RHalf(a) == Rat(a.n, 2 * a.d)

(***************************************************************************)
(* canvasDimensions (lines 214-223).                                       *)
(***************************************************************************)
\* Math.round(n / d) for n >= 0, d > 0
Round(n, d) == (2 * n + d) \div (2 * d)

canvasDimensions(res, aspect) ==
  CASE aspect = "1:1"  -> [width |-> res, height |-> res]
    [] aspect = "4:3"  -> [width |-> res, height |-> Round(res * 3, 4)]
    [] aspect = "16:9" -> [width |-> res, height |-> Round(res * 9, 16)]
    [] aspect = "21:9" -> [width |-> res, height |-> Round(res * 9, 21)]
    [] aspect = "9:16" -> [width |-> Round(res * 9, 16), height |-> res]
    [] OTHER           -> [width |-> res, height |-> res]

(***************************************************************************)
(* getInitialState (lines 100-161).  The URL hash is given by its          *)
(* parameters as the parsers see them: parseInt and parseFloat yield a     *)
(* number or NaN (also for a missing parameter, which reads as null); a    *)
(* parsed double is a rational of moderate size, or "huge" (infinite or of *)
(* absolute value >= 1e10).  A missing string parameter is Null.  The       *)
(* parameter f is a text: a sequence of characters, each under esc layers  *)
(* of percent-encoding ("%20" is a space under one layer, "%2520" under    *)
(* two); a missing f is the empty text.                                    *)
(***************************************************************************)
Ch(c) == [c |-> c, esc |-> 0]
Str(cs) == [k \in DOMAIN cs |-> Ch(cs[k])]

\* the formula names as texts, for the formulas whose names are encoded or
\* decoded in the model ("sup3" is the superscript three, "mid" the middle dot)
FormulaText ==
  [ k \in { "z^3 - 1", "z^5 - z^2", "z^3 + (0.3+0.5i)", "(z^2 + 1)/(z^3 - 1)",
            "sin(z)*exp(z) - 1" } |->
      CASE k = "z^3 - 1" -> Str(<< "z", "sup3", " ", "-", " ", "1" >>)
        [] k = "z^5 - z^2" -> Str(<< "z", "sup5", " ", "-", " ", "z", "sup2" >>)
        [] k = "z^3 + (0.3+0.5i)" ->
             Str(<< "z", "sup3", " ", "+", " ", "(", "0", ".", "3", "+", "0", ".", "5",
                    "i", ")" >>)
        [] k = "(z^2 + 1)/(z^3 - 1)" ->
             Str(<< "(", "z", "sup2", " ", "+", " ", "1", ")", "/", "(", "z", "sup3",
                    " ", "-", " ", "1", ")" >>)
        [] k = "sin(z)*exp(z) - 1" ->
             Str(<< "s", "i", "n", "(", "z", ")", "mid", "e", "x", "p", "(", "z", ")",
                    " ", "-", " ", "1" >>) ]

\* the string a text spells: the formula key, or a string that is no key
KeyOf(text) ==
  IF \E k \in DOMAIN FormulaText : FormulaText[k] = text
  THEN CHOOSE k \in DOMAIN FormulaText : FormulaText[k] = text
  ELSE "<no key>"

AlphaNumeric == { "z", "s", "i", "n", "e", "x", "p", "0", "1", "2", "3", "5" }

\* encodeURIComponent (line 268) escapes every character but these
UriUnreserved == AlphaNumeric \cup { "-", "_", ".", "!", "~", "*", "'", "(", ")" }

encodeURIComponent(text) ==
  [ k \in DOMAIN text |->
      IF text[k].esc = 0 /\ text[k].c \in UriUnreserved
      THEN text[k] ELSE [text[k] EXCEPT !.esc = @ + 1] ]

\* decodeURIComponent (line 124): one layer is taken off; a "%" that starts no
\* escape is a URIError
decodeURIComponent(text) ==
  IF \E k \in DOMAIN text : text[k] = Ch("%")
  THEN [ok |-> FALSE]
  ELSE [ ok |-> TRUE,
         text |-> [ k \in DOMAIN text |->
                      IF text[k].esc > 0 THEN [text[k] EXCEPT !.esc = @ - 1]
                      ELSE text[k] ] ]
Null == "<null>"
NaN == [kind |-> "nan"]
Huge == [kind |-> "huge"]
Num(v) == [kind |-> "num", v |-> v]

defaults ==
  [ resolution |-> 300, formula |-> "z^3 - 1", maxIter |-> 50,
    colorScheme |-> "rainbow",
    bounds |-> [minX |-> RInt(-3), maxX |-> RInt(3), minY |-> RInt(-3), maxY |-> RInt(3)],
    aspectRatio |-> "1:1", evenIterOnly |-> FALSE ]

\* the hash of a URL without parameters
NoParams ==
  [ res |-> NaN, f |-> << >>, iter |-> NaN, color |-> Null, aspect |-> Null,
    even |-> Null, x1 |-> NaN, x2 |-> NaN, y1 |-> NaN, y2 |-> NaN ]

\* (Number.isFinite(x) && Math.abs(x) < 1e10) ? x : dflt
FiniteOr(x, dflt) == IF x.kind = "num" THEN x.v ELSE dflt

getInitialState(hash) ==
  IF hash = NoParams THEN defaults
  ELSE IF hash.f # << >> /\ ~decodeURIComponent(hash.f).ok
  THEN defaults   \* catch (e) (lines 157-160)
  ELSE
    [ resolution |->
        IF hash.res.kind = "num" /\ hash.res.v # 0 /\ hash.res.v >= 100 /\ hash.res.v <= 18000
        THEN hash.res.v ELSE defaults.resolution,
      formula |->
        LET f == IF hash.f # << >> THEN KeyOf(decodeURIComponent(hash.f).text)
                 ELSE defaults.formula
        IN  IF f \in VALID_FORMULAS THEN f ELSE defaults.formula,
      maxIter |->
        IF hash.iter.kind = "num" /\ hash.iter.v # 0 /\ hash.iter.v >= 10 /\ hash.iter.v <= 200
        THEN hash.iter.v ELSE defaults.maxIter,
      colorScheme |->
        IF hash.color \in VALID_COLOR_SCHEMES THEN hash.color ELSE defaults.colorScheme,
      aspectRatio |->
        IF hash.aspect \in VALID_ASPECT_RATIOS THEN hash.aspect ELSE defaults.aspectRatio,
      evenIterOnly |-> hash.even = "true" \/ hash.even = "1",
      bounds |->
        [ minX |-> FiniteOr(hash.x1, defaults.bounds.minX),
          maxX |-> FiniteOr(hash.x2, defaults.bounds.maxX),
          minY |-> FiniteOr(hash.y1, defaults.bounds.minY),
          maxY |-> FiniteOr(hash.y2, defaults.bounds.maxY) ] ]

(***************************************************************************)
(* Math.floor((endRow / height) * 100) (line 823), for 1 <= endRow <=      *)
(* height, in IEEE-754 double arithmetic.  The quotient q = fl(endRow /    *)
(* height) has the 53-bit significand M = round(endRow * 2^s / height);    *)
(* r = M * height - endRow * 2^s is its rounding error in units of         *)
(* 2^-s / height.  When 100 * endRow / height is not an integer the floor  *)
(* is that of the exact value; when it is an integer n, fl(q * 100) falls  *)
(* below n exactly when q * 100 is more than half a spacing of the doubles *)
(* below n.                                                                *)
(***************************************************************************)
RECURSIVE Pow2(_)
Pow2(k) == IF k = 0 THEN 1 ELSE 2 * Pow2(k - 1)

\* 2^(52 + j) mod h, for h < 46341
Pow2Mod52(j, h) ==
  LET p13 == 8192 % h
      p26 == (p13 * p13) % h
      p52 == (p26 * p26) % h
  IN  (p52 * (Pow2(j) % h)) % h

\* the largest L with 2^L <= n, n >= 1
RECURSIVE ILog2(_)
ILog2(n) == IF n < 2 THEN 0 ELSE 1 + ILog2(n \div 2)

\* the least j with e * 2^j >= h
RECURSIVE BinExp(_, _)
BinExp(e, h) == IF e >= h THEN 0 ELSE 1 + BinExp(2 * e, h)

\* the percentage of the rows still to do, in place of the rows done
FloorPercent_Remaining(endRow, height) == (100 * (height - endRow)) \div height

FloorPercent(endRow, height) ==
  LET exact == (100 * endRow) \div height
  IN  IF (100 * endRow) % height # 0 THEN exact
      ELSE
        LET n   == exact
            j   == BinExp(endRow, height)
            rem == (endRow * Pow2Mod52(j, height)) % height
            r   == IF 2 * rem < height THEN -rem ELSE height - rem
            L   == ILog2(n)
            sh  == IF n = Pow2(L) THEN j + L - 1 ELSE j + L
        IN  IF rem # 0 /\ sh <= 6 /\ -200 * r > height * Pow2(sh) THEN n - 1 ELSE n

(***************************************************************************)
(* The colour mapper (lines 592-735).  Channels are computed in exact      *)
(* rational arithmetic; Math.sin is a fixed-point polynomial, exact to     *)
(* 1e-3.  The source computes in doubles, so where a value lies within     *)
(* rounding distance of an integer its floor can differ by one from the    *)
(* channel computed here.                                                  *)
(***************************************************************************)
RFloor(a) == a.n \div a.d
RMin(a, b) == IF RLess(b, a) THEN b ELSE a
RMax(a, b) == IF RLess(a, b) THEN b ELSE a
\* k * n = q * d + r with 0 <= r < d, as << q, r >>, for 0 <= n < d
RECURSIVE MulDivMod(_, _, _)
MulDivMod(k, n, d) ==
  IF k = 0 THEN << 0, 0 >>
  ELSE LET h == MulDivMod(k \div 2, n, d)
           r == 2 * h[2] + (k % 2) * n
       IN  << 2 * h[1] + (r \div d), r % d >>

\* Math.floor(k * a) for an integer k >= 0, without forming k * a.n
RFloorTimes(k, a) == k * (a.n \div a.d) + MulDivMod(k, a.n % a.d, a.d)[1]

\* a % m for a >= 0, m > 0
RMod(a, m) == RSub(a, RMul(m, RInt(RFloor(RDiv(a, m)))))

\* sin of x / 10000 radians, times 10000, for 0 <= x <= 15708
SinQuadrant(x) ==
  LET x2 == (x * x) \div 10000
      x3 == (x2 * x) \div 10000
      x5 == (x3 * x2) \div 10000
      x7 == ((x5 \div 10) * x2) \div 1000
      x9 == ((x7 \div 10) * x2) \div 1000
      v  == x - (x3 \div 6) + (x5 \div 120) - (x7 \div 5040) + (x9 \div 362880)
  IN  Min(10000, Max(0, v))

\* Math.sin(x / 10000) * 10000
RECURSIVE SinE4(_)
SinE4(x) ==
  IF x < 0 THEN -SinE4(-x)
  ELSE IF x >= 62832 THEN SinE4(x % 62832)
  ELSE IF x > 31416 THEN -SinE4(x - 31416)
  ELSE IF x > 15708 THEN SinQuadrant(31416 - x)
  ELSE SinQuadrant(x)

\* Math.sin(turns * Math.PI * 2 + phase / 10000), turns a rational
SinTurns(turns, phase) ==
  Rat((SinE4(RFloor(RMul(turns, RInt(62832))) + phase) + 5) \div 10, 1000)

RGB(r, g, b) == [r |-> r, g |-> g, b |-> b]

\* hslToRgb (lines 715-735), h, s, l rationals
hslToRgb(h, s100, l100) ==
  LET s == RDiv(s100, RInt(100))
      l == RDiv(l100, RInt(100))
      c == RMul(RSub(RInt(1), RAbs(RSub(RMul(RInt(2), l), RInt(1)))), s)
      x == RMul(c, RSub(RInt(1),
                        RAbs(RSub(RMod(RDiv(h, RInt(60)), RInt(2)), RInt(1)))))
      m == RSub(l, RHalf(c))
      z == RInt(0)
      rgb == IF RLess(h, RInt(60)) THEN << c, x, z >>
             ELSE IF RLess(h, RInt(120)) THEN << x, c, z >>
             ELSE IF RLess(h, RInt(180)) THEN << z, c, x >>
             ELSE IF RLess(h, RInt(240)) THEN << z, x, c >>
             ELSE IF RLess(h, RInt(300)) THEN << x, z, c >>
             ELSE << c, z, x >>
      ch(v) == RFloorTimes(255, RAdd(v, m))
  IN  RGB(ch(rgb[1]), ch(rgb[2]), ch(rgb[3]))

\* Math.floor(a + s * k) and Math.floor(a - s * k), s a rational
Ramp(a, s, k) == RFloor(RAdd(RInt(a), RMul(s, RInt(k))))

\* the channel left as computed, without Math.max / Math.min
Clamp255_None(v) == v

\* Math.max(0, Math.min(255, v))
Clamp255(v) == Max(0, Min(255, v))

\* the hue computed from the count itself, without the modulus
HsvHue_NoModulus(iterations, N) == RMul(Rat(iterations, N), RInt(360))

\* idx = Math.floor(iterations % N); hue = (idx / N) * 360 (lines 696-697)
HsvHue(iterations, N) == RMul(Rat(iterations % N, N), RInt(360))

\* the switch of getColor (lines 597-712), for iterations < maxIterValue
SchemeColor(iterations, maxIterValue, scheme) ==
  LET t == Rat(iterations, maxIterValue)
      seg(from, by) == RMul(RSub(t, from), by)
  IN  CASE scheme = "rainbow" ->
             hslToRgb(RMul(t, RInt(360)), RInt(80), RInt(50))
        [] scheme = "fire" ->
             RGB(RFloor(RMin(RInt(255), RMul(t, RInt(765)))),
                 RFloor(RMax(RInt(0), RMin(RInt(255),
                        RMul(RSub(t, Rat(33, 100)), RInt(765))))),
                 RFloor(RMax(RInt(0), RMin(RInt(255),
                        RMul(RSub(t, Rat(66, 100)), RInt(765))))))
        [] scheme = "ocean" ->
             RGB(Ramp(0, t, 100), Ramp(100, t, 155), Ramp(150, t, 105))
        [] scheme = "neon" ->
             hslToRgb(RMod(RAdd(RMul(t, RInt(180)), RInt(180)), RInt(360)),
                      RInt(100), RAdd(RInt(50), RMul(t, RInt(30))))
        [] scheme = "grayscale" ->
             RGB(Ramp(0, t, 255), Ramp(0, t, 255), Ramp(0, t, 255))
        [] scheme = "plasma" ->
             RGB(Ramp(128, SinTurns(t, 0), 127),
                 Ramp(128, SinTurns(t, 20940), 127),
                 Ramp(128, SinTurns(t, 41880), 127))
        [] scheme = "viridis" ->
             LET r == RFloorTimes(255,
                        RAdd(Rat(267, 1000),
                             RMul(t, RMul(Rat(329, 1000), SinTurns(RHalf(t), 0)))))
                 g == RFloorTimes(255,
                        RSub(RAdd(Rat(5, 1000), RMul(Rat(988, 1000), t)),
                             RHalf(RMul(t, t))))
                 b == RFloorTimes(255,
                        RAdd(Rat(329, 1000),
                             RHalf(SinTurns(RHalf(RSub(t, Rat(1, 2))), 0))))
             IN  RGB(Clamp255(r), Clamp255(g), Clamp255(b))
        [] scheme = "sunset" ->
             IF RLess(t, Rat(1, 4)) THEN
               LET s == RMul(t, RInt(4))
               IN  RGB(Ramp(80, s, 100), Ramp(20, s, 60), Ramp(100, s, -50))
             ELSE IF RLess(t, Rat(1, 2)) THEN
               LET s == seg(Rat(1, 4), RInt(4))
               IN  RGB(Ramp(180, s, 75), Ramp(80, s, 80), Ramp(50, s, 100))
             ELSE IF RLess(t, Rat(3, 4)) THEN
               LET s == seg(Rat(1, 2), RInt(4))
               IN  RGB(255, Ramp(160, s, 50), Ramp(150, s, -50))
             ELSE
               LET s == seg(Rat(3, 4), RInt(4))
               IN  RGB(255, Ramp(210, s, 45), Ramp(100, s, 100))
        [] scheme = "copper" ->
             RGB(RFloor(RMin(RInt(255), RMul(t, RInt(320)))),
                 RFloor(RMin(RInt(200), RMul(t, RInt(250)))),
                 RFloor(RMin(RInt(100), RMul(t, RInt(120)))))
        [] scheme = "aurora" ->
             hslToRgb(RAdd(RInt(120), RMul(t, RInt(180))),
                      RAdd(RInt(70), RMul(t, RInt(30))),
                      RAdd(RInt(40), RMul(SinTurns(RHalf(t), 0), RInt(20))))
        [] scheme = "cyberpunk" ->
             IF RLess(t, Rat(1, 2)) THEN
               LET s == RMul(t, RInt(2))
               IN  RGB(Ramp(100, s, 155), Ramp(20, s, 0), Ramp(200, s, -50))
             ELSE
               LET s == seg(Rat(1, 2), RInt(2))
               IN  RGB(Ramp(255, s, -200), Ramp(20, s, 100), Ramp(150, s, 105))
        [] scheme = "marin" ->
             IF RLess(t, Rat(20, 100)) THEN
               LET s == RMul(t, RInt(5))
               IN  RGB(Ramp(60, s, 50), Ramp(30, s, 30), Ramp(25, s, 15))
             ELSE IF RLess(t, Rat(35, 100)) THEN
               LET s == seg(Rat(20, 100), Rat(667, 100))
               IN  RGB(Ramp(110, s, 40), Ramp(60, s, 50), Ramp(40, s, 30))
             ELSE IF RLess(t, Rat(50, 100)) THEN
               LET s == seg(Rat(35, 100), Rat(667, 100))
               IN  RGB(Ramp(150, s, -70), Ramp(110, s, 50), Ramp(70, s, -20))
             ELSE IF RLess(t, Rat(65, 100)) THEN
               LET s == seg(Rat(50, 100), Rat(667, 100))
               IN  RGB(Ramp(80, s, 130), Ramp(160, s, 50), Ramp(50, s, 30))
             ELSE IF RLess(t, Rat(80, 100)) THEN
               LET s == seg(Rat(65, 100), Rat(667, 100))
               IN  RGB(Ramp(210, s, -30), Ramp(210, s, -20), Ramp(80, s, 100))
             ELSE
               LET s == seg(Rat(80, 100), RInt(5))
               IN  RGB(Ramp(180, s, -50), Ramp(190, s, 30), Ramp(180, s, 75))
        [] scheme = "hsv-8" ->
             hslToRgb(HsvHue(iterations, 8), RInt(100), RInt(50))
        [] scheme = "hsv-16" ->
             hslToRgb(HsvHue(iterations, 16), RInt(100), RInt(50))
        [] scheme = "hsv-32" ->
             hslToRgb(HsvHue(iterations, 32), RInt(100), RInt(50))
        [] OTHER -> RGB(255, 255, 255)

\* getColor with the guard of line 593 written with > for >=
getColor_GuardGreater(iterations, maxIterValue, scheme) ==
  IF iterations > maxIterValue THEN RGB(0, 0, 0)
  ELSE SchemeColor(iterations, maxIterValue, scheme)

\* getColor (lines 592-713)
getColor(iterations, maxIterValue, scheme) ==
  IF iterations >= maxIterValue THEN RGB(0, 0, 0)
  ELSE SchemeColor(iterations, maxIterValue, scheme)

\* the even-iteration filter with the parity test inverted
pixelColor_OddKept(iterations, maxIterValue, scheme, even) ==
  IF even /\ iterations % 2 = 0 THEN RGB(0, 0, 0)
  ELSE getColor(iterations, maxIterValue, scheme)

\* the colour of a pixel (lines 807-813): the even-iteration filter, then getColor
pixelColor(iterations, maxIterValue, scheme, even) ==
  IF even /\ iterations % 2 # 0 THEN RGB(0, 0, 0)
  ELSE getColor(iterations, maxIterValue, scheme)

(***************************************************************************)
(* Doubles as the Halley step uses them: a finite value (an exact          *)
(* rational, below 2^31 in magnitude), a finite value above 1e10,          *)
(* +-Infinity, or NaN.  The sign of a zero is not kept: the only division  *)
(* by zero the step can make is guarded in cDiv.                           *)
(***************************************************************************)
DFin(r) == [k |-> "fin", v |-> r]
DInt(i) == DFin(RInt(i))
DBig == [k |-> "big"]
DInf(sign) == [k |-> "inf", s |-> sign]
DNaN == [k |-> "nan"]

Sgn(r) == IF r.n > 0 THEN 1 ELSE IF r.n < 0 THEN -1 ELSE 0
DIsZero(x) == x.k = "fin" /\ x.v.n = 0
DSign(x) == IF x.k = "inf" THEN x.s ELSE Sgn(x.v)

\* x + y
DAdd(x, y) ==
  IF x.k = "nan" \/ y.k = "nan" THEN DNaN
  ELSE IF x.k = "inf" /\ y.k = "inf" THEN (IF x.s = y.s THEN x ELSE DNaN)
  ELSE IF x.k = "inf" THEN x
  ELSE IF y.k = "inf" THEN y
  ELSE DFin(RAdd(x.v, y.v))

\* -x
DNeg(x) ==
  IF x.k = "nan" THEN DNaN
  ELSE IF x.k = "inf" THEN DInf(-x.s)
  ELSE DFin(RNeg(x.v))

\* x - y
DSub(x, y) == DAdd(x, DNeg(y))

\* x * y
DMul(x, y) ==
  IF x.k = "nan" \/ y.k = "nan" THEN DNaN
  ELSE IF x.k = "inf" \/ y.k = "inf"
       THEN (IF DIsZero(x) \/ DIsZero(y) THEN DNaN ELSE DInf(DSign(x) * DSign(y)))
  ELSE DFin(RMul(x.v, y.v))

\* x / y
DDiv(x, y) ==
  IF x.k = "nan" \/ y.k = "nan" THEN DNaN
  ELSE IF x.k = "inf" /\ y.k = "inf" THEN DNaN
  ELSE IF x.k = "inf" THEN DInf(IF DSign(y) < 0 THEN -x.s ELSE x.s)
  ELSE IF y.k = "inf" THEN DInt(0)
  ELSE IF DIsZero(y) THEN (IF DIsZero(x) THEN DNaN ELSE DInf(Sgn(x.v)))
  ELSE DFin(RDiv(x.v, y.v))

\* Complex number operations (lines 306-327)
Cx(re, im) == [re |-> re, im |-> im]
CInt(a, b) == Cx(DInt(a), DInt(b))
cSub(a, b) == Cx(DSub(a.re, b.re), DSub(a.im, b.im))
cMul(a, b) ==
  Cx(DSub(DMul(a.re, b.re), DMul(a.im, b.im)),
     DAdd(DMul(a.re, b.im), DMul(a.im, b.re)))

\* cDiv without the test of line 315
cDiv_NoGuard(a, b) ==
  LET denom == DAdd(DMul(b.re, b.re), DMul(b.im, b.im))
  IN  Cx(DDiv(DAdd(DMul(a.re, b.re), DMul(a.im, b.im)), denom),
         DDiv(DSub(DMul(a.im, b.re), DMul(a.re, b.im)), denom))

\* cDiv (lines 313-320)
cDiv(a, b) ==
  LET denom == DAdd(DMul(b.re, b.re), DMul(b.im, b.im))
  IN  IF DIsZero(denom) THEN Cx(DInf(1), DInf(1))
      ELSE Cx(DDiv(DAdd(DMul(a.re, b.re), DMul(a.im, b.im)), denom),
              DDiv(DSub(DMul(a.im, b.re), DMul(a.re, b.im)), denom))

\* cPow (lines 321-327)
RECURSIVE cPow(_, _)
cPow(z, n) == IF n <= 0 THEN CInt(1, 0) ELSE cMul(cPow(z, n - 1), z)

\* the registry entries whose f, df, d2f are computed here (lines 360-377)
PolynomialKeys == { "z^3 - 1", "z^4 - 1", "z^5 - 1" }

Degree(key) ==
  CASE key = "z^3 - 1" -> 3
    [] key = "z^4 - 1" -> 4
    [] key = "z^5 - 1" -> 5

\* func.f(z), func.df(z), func.d2f(z) for z^n - 1
EvalF(key, z) == cSub(cPow(z, Degree(key)), CInt(1, 0))
EvalDf(key, z) == cMul(CInt(Degree(key), 0), cPow(z, Degree(key) - 1))
EvalD2f(key, z) ==
  cMul(CInt(Degree(key) * (Degree(key) - 1), 0), cPow(z, Degree(key) - 2))

\* halleyIterate (lines 738-750) for a registry entry computed here: the new
\* point, with the derivative and the numerator it went through
halleyIterate(z, key) ==
  LET fz == EvalF(key, z)
      dfz == EvalDf(key, z)
      d2fz == EvalD2f(key, z)
      numerator == cDiv(fz, dfz)
      dfz2 == cMul(dfz, dfz)
      term == cDiv(cMul(fz, d2fz), cMul(CInt(2, 0), dfz2))
      denominator == cSub(CInt(1, 0), term)
      correction == cDiv(numerator, denominator)
  IN  [z |-> cSub(z, correction), dfz |-> dfz, numerator |-> numerator]

\* z.re * z.re + z.im * z.im (line 788)
Mag(z) == DAdd(DMul(z.re, z.re), DMul(z.im, z.im))

(***************************************************************************)
(* The per-pixel iteration loop (lines 781-805).                           *)
(***************************************************************************)
\* the test with epsilon 0 in place of 0.00001
Close_ZeroEpsilon(mag, prevMag) ==
  /\ mag.k # "big"
  /\ LET d == DSub(mag, prevMag)
     IN  d.k = "fin" /\ RLess(RAbs(d.v), RInt(0))

\* Math.abs(mag - prevMag) < epsilon (line 790), epsilon = 0.00001 (line 765)
Close(mag, prevMag) ==
  /\ mag.k # "big"
  /\ LET d == DSub(mag, prevMag)
     IN  d.k = "fin" /\ RLess(RAbs(d.v), Rat(1, 100000))

\* the stagnation test without its k > 0
Stagnates_AtAnyStep(k, mag, prevMag) == Close(mag, prevMag)

\* k > 0 && Math.abs(mag - prevMag) < epsilon (line 790)
Stagnates(k, mag, prevMag) == k > 0 /\ Close(mag, prevMag)

\* mag > 1e10 || isNaN(mag) (line 797); a finite value of the model is below 2^31
Diverges(mag) == mag.k = "big" \/ mag.k = "nan" \/ (mag.k = "inf" /\ mag.s = 1)

\* the loop's variables before the first iteration (lines 781-783, 785)
LoopStart(maxIterValue) ==
  [ k |-> 0, prevMag |-> DInt(0), iterations |-> 0, maxIter |-> maxIterValue,
    running |-> maxIterValue > 0,
    \* observation: the way the loop was left
    exit |-> IF maxIterValue > 0 THEN "none" ELSE "exhausted" ]

\* the loop without its try and catch: the throw leaves renderFractal
Caught_Rethrown(st) == [st EXCEPT !.running = FALSE, !.exit = "uncaught"]

\* catch { iterations = maxIter.value; break; } (lines 801-804)
Caught(st) ==
  [st EXCEPT !.iterations = st.maxIter, !.running = FALSE, !.exit = "catch"]

\* one iteration of the loop (lines 785-804) and the k++ and k < maxIter that
\* follow it; out is the outcome of halleyIterate: a magnitude or a throw
LoopBody(st, out) ==
  IF out.throw
  THEN Caught(st)
  ELSE IF Stagnates(st.k, out.mag, st.prevMag)
  THEN [st EXCEPT !.iterations = st.k, !.running = FALSE, !.exit = "stagnation"]
  ELSE IF Diverges(out.mag)
  THEN [st EXCEPT !.prevMag = out.mag, !.iterations = st.maxIter,
                  !.running = FALSE, !.exit = "divergence"]
  ELSE [st EXCEPT !.prevMag = out.mag, !.iterations = st.k + 1, !.k = st.k + 1,
                  !.running = st.k + 1 < st.maxIter,
                  !.exit = IF st.k + 1 < st.maxIter THEN "none" ELSE "exhausted"]

Thrown == [throw |-> TRUE]
Returned(mag) == [throw |-> FALSE, mag |-> mag]

\* the loop run to its end; orbit[k + 1] is the outcome of halleyIterate in
\* iteration k, the last element standing for all later iterations
RECURSIVE Classify(_, _)
Classify(st, orbit) ==
  IF ~st.running THEN st
  ELSE Classify(LoopBody(st, orbit[Min(st.k + 1, Len(orbit))]), orbit)

\* idx with three bytes a pixel
PixelIndex_Stride3(px, py, width) == (py * width + px) * 3

\* const idx = (py * width + px) * 4 (line 815)
PixelIndex(px, py, width) == (py * width + px) * 4

\* imageData.data after the four bytes at idx have been written, the last of
\* them alpha (lines 816-819): the bytes written are kept as runs of
\* consecutive offsets, and a byte written again starts a new run
WritePixelBytes(runs, idx, alpha) ==
  IF runs # << >> /\ runs[Len(runs)].last + 1 = idx /\ runs[Len(runs)].alpha = alpha
  THEN [runs EXCEPT ![Len(runs)].last = idx + 3]
  ELSE Append(runs, [first |-> idx, last |-> idx + 3, alpha |-> alpha])

(***************************************************************************)
(* State of the component (lines 163-176) and of its render passes.        *)
(***************************************************************************)
VARIABLES
  formula, resolution, maxIter, colorScheme, aspectRatio, evenIterOnly, bounds,
  isRendering, progress,
  mounted,      \* onMounted has run: canvasRef holds the canvas element
  canvasEl,     \* the canvas element's width and height attributes
  canvasImage,  \* what the last putImageData drew, or Blank
  passes,       \* the invocations of renderFractal that passed its guards, by id
  timers,       \* the setTimeout(resolve, 0) callbacks pending, oldest first
  requests,     \* number of user changes so far
  probe         \* a call of a pure function: its arguments and, once made, its result

vars ==
  << formula, resolution, maxIter, colorScheme, aspectRatio, evenIterOnly, bounds,
     isRendering, progress, mounted, canvasEl, canvasImage, passes, timers, requests,
     probe >>

component ==
  << formula, resolution, maxIter, colorScheme, aspectRatio, evenIterOnly, bounds,
     isRendering, progress, mounted, canvasEl, canvasImage, passes, timers, requests >>

refs == << formula, resolution, maxIter, colorScheme, aspectRatio, evenIterOnly, bounds >>

Blank == [id |-> 0]
NoProbe == [op |-> "none", args |-> << >>, done |-> FALSE, result |-> Null]


\* the values of maxIter.value, colorScheme.value and evenIterOnly.value a pixel
\* of a row is computed with (lines 785, 798, 802, 809, 812)
Live(mi, cs, ev) == [maxIter |-> mi, colorScheme |-> cs, evenIterOnly |-> ev]

\* imageData after the rows first..last have been written with the values lv:
\* the buffer is kept as runs of consecutive rows written with the same values
WriteRows(rows, first, last, lv) ==
  IF rows # << >> /\ rows[Len(rows)].lv = lv /\ rows[Len(rows)].last + 1 = first
  THEN [rows EXCEPT ![Len(rows)].last = last]
  ELSE Append(rows, [first |-> first, last |-> last, lv |-> lv])

\* the plane point of pixel (px, py) of pass p (lines 767-769, 778-779)
PlanePoint(p, px, py) ==
  LET xStep == RDiv(RSub(p.maxX, p.minX), RInt(p.width))
      yStep == RDiv(RSub(p.maxY, p.minY), RInt(p.height))
  IN  [ x |-> RAdd(p.minX, RMul(RInt(px), xStep)),
        y |-> RSub(p.maxY, RMul(RInt(py), yStep)) ]

\* renderFractal (lines 752-825) up to its first await: the guards, the
\* snapshot of dimensions and bounds, the first chunk and the first yield.
\* f, mi, cs, ev, res, ar, b are the values of the refs when it is called.
renderFractal(hasCanvas, f, mi, cs, ev, res, ar, b) ==
  LET func == functions(f)
      dims == canvasDimensions(res, ar)
      chunkSize == Max(1, dims.height \div 32)
      endRow == Min(chunkSize, dims.height)
      id == Len(passes) + 1
      pass ==
        [ id |-> id, func |-> func, formula |-> f,
          width |-> dims.width, height |-> dims.height,
          minX |-> b.minX, maxX |-> b.maxX, minY |-> b.minY, maxY |-> b.maxY,
          chunkSize |-> chunkSize,
          startRow |-> chunkSize,
          rows |-> WriteRows(<< >>, 0, endRow - 1, Live(mi, cs, ev)),
          \* observation: the request's values at the start, and the values this
          \* pass has assigned to progress so far
          start |-> Live(mi, cs, ev),
          reported |-> << 0, FloorPercent(endRow, dims.height) >>,
          status |-> "running" ]
  IN  IF ~hasCanvas \/ ~Truthy(func)
      THEN UNCHANGED << isRendering, progress, passes, timers >>
      ELSE /\ isRendering' = TRUE
           /\ progress' = FloorPercent(endRow, dims.height)
           /\ passes' = Append(passes, pass)
           /\ timers' = Append(timers, id)

\* the canvas element follows canvasDimensions (template, lines 1121-1124);
\* assigning a canvas's width or height clears its bitmap
PatchCanvas(res, ar) ==
  LET dims == canvasDimensions(res, ar)
  IN  IF dims = canvasEl
      THEN UNCHANGED << canvasEl, canvasImage >>
      ELSE canvasEl' = dims /\ canvasImage' = Blank

\* watch(canvasDimensions) (lines 226-258): the bounds after a change of the
\* canvas dimensions
AdjustBounds(b, res, ar) ==
  LET dims == canvasDimensions(res, ar)
      canvasAspect == Rat(dims.width, dims.height)
      centerX == RHalf(RAdd(b.minX, b.maxX))
      centerY == RHalf(RAdd(b.minY, b.maxY))
      currentRangeX == RSub(b.maxX, b.minX)
      currentRangeY == RSub(b.maxY, b.minY)
      currentAspect == RDiv(currentRangeX, currentRangeY)
      wider == RLess(RInt(1), canvasAspect)
      newRangeY == IF wider THEN currentRangeY ELSE RDiv(currentRangeX, canvasAspect)
      newRangeX == IF wider THEN RMul(currentRangeY, canvasAspect) ELSE currentRangeX
  IN  IF RLess(Rat(1, 100), RAbs(RSub(currentAspect, canvasAspect)))
      THEN [ minX |-> RSub(centerX, RHalf(newRangeX)),
             maxX |-> RAdd(centerX, RHalf(newRangeX)),
             minY |-> RSub(centerY, RHalf(newRangeY)),
             maxY |-> RAdd(centerY, RHalf(newRangeY)) ]
      ELSE b

\* handlePan with the 25% step whatever the Shift key
handlePan_ShiftIgnored(b, dx, dy, shiftKey) ==
  LET rangeX == RSub(b.maxX, b.minX)
      rangeY == RSub(b.maxY, b.minY)
      panAmount == Rat(25, 100)
      panX == RMul(RMul(RInt(dx), rangeX), panAmount)
      panY == RMul(RMul(RInt(dy), rangeY), panAmount)
  IN  [ minX |-> RAdd(b.minX, panX), maxX |-> RAdd(b.maxX, panX),
        minY |-> RAdd(b.minY, panY), maxY |-> RAdd(b.maxY, panY) ]

\* handlePan (lines 921-935)
handlePan(b, dx, dy, shiftKey) ==
  LET rangeX == RSub(b.maxX, b.minX)
      rangeY == RSub(b.maxY, b.minY)
      panAmount == IF shiftKey THEN Rat(5, 100) ELSE Rat(25, 100)
      panX == RMul(RMul(RInt(dx), rangeX), panAmount)
      panY == RMul(RMul(RInt(dy), rangeY), panAmount)
  IN  [ minX |-> RAdd(b.minX, panX), maxX |-> RAdd(b.maxX, panX),
        minY |-> RAdd(b.minY, panY), maxY |-> RAdd(b.maxY, panY) ]

(***************************************************************************)
(* Inputs of the model: the URL hashes the page is opened with and the     *)
(* values the controls are set to.                                         *)
(***************************************************************************)
HashInputs ==
  { NoParams,
    \* #res=100&aspect=16:9&iter=30
    [NoParams EXCEPT !.res = Num(100), !.aspect = "16:9", !.iter = Num(30)],
    \* #x1=3&x2=-3
    [NoParams EXCEPT !.x1 = Num(RInt(3)), !.x2 = Num(RInt(-3))] }

FormulaInputs == { "z^3 - 1", "z^5 - z^2" }
MaxIterInputs == { 30, 50 }
ColorSchemeInputs == { "rainbow", "hsv-8" }
AspectRatioInputs == { "1:1", "4:3", "16:9" }
ResolutionInputs == { 100, 300 }
PanInputs == { << 1, 0, FALSE >>, << 0, -1, TRUE >> }

\* setup (lines 163-176): the refs are initialised from the URL hash
setup ==
  \E hash \in HashInputs :
    LET initialState == getInitialState(hash)
    IN  /\ resolution = initialState.resolution
        /\ formula = initialState.formula
        /\ maxIter = initialState.maxIter
        /\ colorScheme = initialState.colorScheme
        /\ bounds = initialState.bounds
        /\ aspectRatio = initialState.aspectRatio
        /\ evenIterOnly = initialState.evenIterOnly
        /\ isRendering = FALSE
        /\ progress = 0
        /\ mounted = FALSE
        /\ canvasEl = canvasDimensions(initialState.resolution, initialState.aspectRatio)
        /\ canvasImage = Blank
        /\ passes = << >>
        /\ timers = << >>
        /\ requests = 0

Init == setup /\ probe = NoProbe

\* onMounted (lines 852-854)
Mount ==
  /\ ~mounted
  /\ mounted' = TRUE
  /\ renderFractal(TRUE, formula, maxIter, colorScheme, evenIterOnly, resolution,
                   aspectRatio, bounds)
  /\ UNCHANGED << refs, canvasEl, canvasImage, requests, probe >>

\* A change of the refs made by one event handler, and the watchers it
\* triggers, which Vue runs together before the next task: the aspect watcher
\* (lines 226-258) when the canvas dimensions changed, then the render watcher
\* (lines 847-849); the canvas element is patched with the new dimensions.
Change(f, res, mi, cs, ar, ev, b) ==
  LET dimsChanged == res # resolution \/ ar # aspectRatio
      b2 == IF dimsChanged THEN AdjustBounds(b, res, ar) ELSE b
  IN  /\ mounted
      /\ requests < MaxRequests
      /\ << f, res, mi, cs, ar, ev, b >> # refs
      /\ requests' = requests + 1
      /\ formula' = f
      /\ resolution' = res
      /\ maxIter' = mi
      /\ colorScheme' = cs
      /\ aspectRatio' = ar
      /\ evenIterOnly' = ev
      /\ bounds' = b2
      /\ PatchCanvas(res, ar)
      /\ renderFractal(TRUE, f, mi, cs, ev, res, ar, b2)
      /\ UNCHANGED << mounted, probe >>

\* v-model="formula" (line 1285)
SetFormula ==
  \E f \in FormulaInputs :
    Change(f, resolution, maxIter, colorScheme, aspectRatio, evenIterOnly, bounds)

\* v-model.number="maxIter" (line 1453)
SetMaxIter ==
  \E mi \in MaxIterInputs :
    Change(formula, resolution, mi, colorScheme, aspectRatio, evenIterOnly, bounds)

\* v-model="colorScheme" (line 1338)
SetColorScheme ==
  \E cs \in ColorSchemeInputs :
    Change(formula, resolution, maxIter, cs, aspectRatio, evenIterOnly, bounds)

\* v-model="evenIterOnly" (line 1367)
SetEvenIterOnly ==
  Change(formula, resolution, maxIter, colorScheme, aspectRatio, ~evenIterOnly, bounds)

\* @click="aspectRatio = ratio" (line 1383)
SetAspectRatio ==
  \E ar \in AspectRatioInputs :
    Change(formula, resolution, maxIter, colorScheme, ar, evenIterOnly, bounds)

\* setResolution (lines 981-983) and v-model.number="resolution" (line 1406)
setResolution ==
  \E res \in ResolutionInputs :
    Change(formula, res, maxIter, colorScheme, aspectRatio, evenIterOnly, bounds)

\* the arrow keys and pan buttons (lines 860-871, 1209-1243)
Pan ==
  \E in \in PanInputs :
    Change(formula, resolution, maxIter, colorScheme, aspectRatio, evenIterOnly,
           handlePan(bounds, in[1], in[2], in[3]))

\* resetView (lines 1009-1011)
resetView ==
  Change(formula, resolution, maxIter, colorScheme, aspectRatio, evenIterOnly,
         [minX |-> RInt(-3), maxX |-> RInt(3), minY |-> RInt(-3), maxY |-> RInt(3)])

\* the chunk loop without the yield of line 824 being resolved: the timer is
\* consumed and the pass is never resumed
RunChunk_NotResumed ==
  /\ timers # << >>
  /\ passes[Head(timers)].startRow < passes[Head(timers)].height
  /\ timers' = Tail(timers)
  /\ UNCHANGED << refs, isRendering, progress, mounted, canvasEl, canvasImage,
                  passes, requests, probe >>

\* The oldest pending timer fires and its pass runs the next iteration of the
\* chunk loop (lines 773-824): the rows of the chunk, the progress, the yield.
RunChunk ==
  /\ timers # << >>
  /\ LET id == Head(timers)
         p == passes[id]
         endRow == Min(p.startRow + p.chunkSize, p.height)
         pct == FloorPercent(endRow, p.height)
     IN  /\ p.startRow < p.height
         /\ passes' =
              [passes EXCEPT ![id] =
                [p EXCEPT !.rows = WriteRows(p.rows, p.startRow, endRow - 1,
                                             Live(maxIter, colorScheme, evenIterOnly)),
                          !.startRow = p.startRow + p.chunkSize,
                          !.reported = Append(p.reported, pct)]]
         /\ progress' = pct
         /\ timers' = Append(Tail(timers), id)
  /\ UNCHANGED << refs, isRendering, mounted, canvasEl, canvasImage, requests, probe >>

\* The oldest pending timer fires and its pass leaves the chunk loop
\* (lines 827-829).
Commit ==
  /\ timers # << >>
  /\ LET id == Head(timers)
         p == passes[id]
     IN  /\ p.startRow >= p.height
         /\ canvasImage' =
              [ id |-> p.id, formula |-> p.formula, width |-> p.width,
                height |-> p.height, minX |-> p.minX, maxX |-> p.maxX,
                minY |-> p.minY, maxY |-> p.maxY, rows |-> p.rows ]
         /\ isRendering' = FALSE
         /\ progress' = 100
         /\ passes' =
              [passes EXCEPT ![id] =
                [p EXCEPT !.status = "committed",
                          !.reported = Append(p.reported, 100)]]
         /\ timers' = Tail(timers)
  /\ UNCHANGED << refs, mounted, canvasEl, requests, probe >>

Next ==
  \/ Mount
  \/ SetFormula
  \/ SetMaxIter
  \/ SetColorScheme
  \/ SetEvenIterOnly
  \/ SetAspectRatio
  \/ setResolution
  \/ Pan
  \/ resetView
  \/ RunChunk
  \/ Commit

Spec == Init /\ [][Next]_vars

\* the event loop runs every timer callback that is pending
FairSpec == Spec /\ WF_vars(RunChunk) /\ WF_vars(Commit)

(***************************************************************************)
(* Resource exhaustion: at the largest resolution of the slider (18000,    *)
(* line 1404) the buffer of 18000 x 18000 x 4 bytes may be more than the   *)
(* browser allocates, and createImageData (line 764) then throws.  Whether *)
(* it does depends on the browser: both outcomes are followed.             *)
(***************************************************************************)
LargeResolutionInputs == { 18000 }

\* the resolution is set and createImageData throws in the renderFractal the
\* watcher calls: lines 753-761 have run, nothing after line 764 does
SetResolutionAllocationFails ==
  \E res \in LargeResolutionInputs :
    /\ mounted
    /\ requests < MaxRequests
    /\ res # resolution
    /\ requests' = requests + 1
    /\ resolution' = res
    /\ bounds' = AdjustBounds(bounds, res, aspectRatio)
    /\ PatchCanvas(res, aspectRatio)
    /\ IF Truthy(functions(formula))
       THEN isRendering' = TRUE /\ progress' = 0
       ELSE UNCHANGED << isRendering, progress >>
    /\ UNCHANGED << formula, maxIter, colorScheme, aspectRatio, evenIterOnly, mounted,
                    passes, timers, probe >>

\* the resolution is set and the buffer is allocated
SetLargeResolution ==
  \E res \in LargeResolutionInputs :
    Change(formula, res, maxIter, colorScheme, aspectRatio, evenIterOnly, bounds)

NextExhaustion ==
  \/ Next
  \/ SetLargeResolution
  \/ SetResolutionAllocationFails

SpecExhaustion == Init /\ [][NextExhaustion]_vars

(***************************************************************************)
(* The engine boundary: formula and colorScheme are refs the component     *)
(* returns from setup, so a caller other than the two select boxes can     *)
(* submit any string.                                                      *)
(***************************************************************************)
EngineFormulaInputs == { "nonexistent", "constructor" }
EngineColorSchemeInputs == { "nonexistent" }

SubmitFormula ==
  \E f \in EngineFormulaInputs :
    Change(f, resolution, maxIter, colorScheme, aspectRatio, evenIterOnly, bounds)

SubmitColorScheme ==
  \E cs \in EngineColorSchemeInputs :
    Change(formula, resolution, maxIter, cs, aspectRatio, evenIterOnly, bounds)

NextEngine ==
  \/ Next
  \/ SubmitFormula
  \/ SubmitColorScheme

SpecEngine == Init /\ [][NextEngine]_vars

(***************************************************************************)
(* The colour mapper on its own: getColor applied to an iteration count,   *)
(* a maxIterValue and a scheme key.                                        *)
(***************************************************************************)
ColorMaxIterInputs == { 20, 50, 150 }
ColorSchemeKeys == VALID_COLOR_SCHEMES \cup EngineColorSchemeInputs

InitColor ==
  /\ setup
  /\ \E maxIterValue \in ColorMaxIterInputs :
       \E iterations \in 0..(maxIterValue + ColorExcess) :
         \E scheme \in ColorSchemeKeys :
           probe = [NoProbe EXCEPT !.op = "getColor",
                                   !.args = << iterations, maxIterValue, scheme >>]

ApplyGetColor ==
  /\ probe.op = "getColor"
  /\ ~probe.done
  /\ probe' = [probe EXCEPT !.done = TRUE,
                            !.result = getColor(probe.args[1], probe.args[2],
                                                probe.args[3])]
  /\ UNCHANGED component

NextColor == ApplyGetColor

SpecColor == InitColor /\ [][NextColor]_vars

(***************************************************************************)
(* The even-iteration filter on its own: the colour of one pixel with the  *)
(* flag set and with the flag clear.                                       *)
(***************************************************************************)
InitEven ==
  /\ setup
  /\ \E maxIterValue \in ColorMaxIterInputs :
       \E iterations \in 0..maxIterValue :
         \E scheme \in ColorSchemeKeys :
           probe = [NoProbe EXCEPT !.op = "pixelColor",
                                   !.args = << iterations, maxIterValue, scheme >>]

ApplyPixelColor ==
  /\ probe.op = "pixelColor"
  /\ ~probe.done
  /\ probe' =
       [probe EXCEPT
          !.done = TRUE,
          !.result =
            [ on  |-> pixelColor(probe.args[1], probe.args[2], probe.args[3], TRUE),
              off |-> pixelColor(probe.args[1], probe.args[2], probe.args[3], FALSE) ]]
  /\ UNCHANGED component

NextEven == ApplyPixelColor

SpecEven == InitEven /\ [][NextEven]_vars

(***************************************************************************)
(* The discrete schemes: getColor applied to two iteration counts, each    *)
(* with its own maxIterValue.                                              *)
(***************************************************************************)
HsvSchemes == { "hsv-8", "hsv-16", "hsv-32" }
HsvMaxIterInputs == { 20, 50 }

\* the modulus of a discrete scheme (lines 696, 701, 706)
HsvModulus(scheme) ==
  CASE scheme = "hsv-8" -> 8
    [] scheme = "hsv-16" -> 16
    [] scheme = "hsv-32" -> 32

InitHsv ==
  /\ setup
  /\ \E m1 \in HsvMaxIterInputs, m2 \in HsvMaxIterInputs :
       \E it1 \in 0..(m1 - 1), it2 \in 0..(m2 - 1) :
         \E scheme \in HsvSchemes :
           probe = [NoProbe EXCEPT !.op = "getColor2",
                                   !.args = << it1, m1, it2, m2, scheme >>]

ApplyGetColorTwice ==
  /\ probe.op = "getColor2"
  /\ ~probe.done
  /\ probe' =
       [probe EXCEPT
          !.done = TRUE,
          !.result = << getColor(probe.args[1], probe.args[2], probe.args[5]),
                        getColor(probe.args[3], probe.args[4], probe.args[5]) >>]
  /\ UNCHANGED component

NextHsv == ApplyGetColorTwice

SpecHsv == InitHsv /\ [][NextHsv]_vars

(***************************************************************************)
(* The iteration loop of one pixel, one iteration at a time.  For z^3 - 1, *)
(* z^4 - 1 and z^5 - 1 the Halley step is computed; for the other registry *)
(* entries the magnitude it yields is an input; for a property inherited   *)
(* from Object.prototype, func.f is not a function and the call throws.    *)
(***************************************************************************)
\* registry keys and start points whose orbit stays exactly representable
PixelStartInputs ==
  { << "z^3 - 1", CInt(0, 0) >>, << "z^3 - 1", CInt(1, 0) >>, << "z^3 - 1", CInt(-1, 0) >>,
    << "z^4 - 1", CInt(0, 0) >>, << "z^4 - 1", CInt(1, 0) >>, << "z^4 - 1", CInt(-1, 0) >>,
    << "z^4 - 1", CInt(0, 1) >>, << "z^4 - 1", CInt(0, -1) >>,
    << "z^5 - 1", CInt(0, 0) >>, << "z^5 - 1", CInt(1, 0) >>, << "z^5 - 1", CInt(-1, 0) >>,
    << "sin(z)", Null >>, << "constructor", Null >> }
PixelMaxIterInputs == { 2, 10, 20 }
OracleMags == { DInt(0), DInt(1), DInt(2), DBig, DInf(1), DNaN }

InitPixel ==
  /\ setup
  /\ \E in \in PixelStartInputs :
       \E maxIterValue \in PixelMaxIterInputs :
         probe = [NoProbe EXCEPT
                    !.op = "pixel",
                    !.args = << in[1], in[2], maxIterValue >>,
                    !.result = [ st |-> LoopStart(maxIterValue), z |-> in[2],
                                 last |-> [kind |-> "none"] ]]

\* the state of the probe after an iteration that left the loop variables st
AfterIteration(st, z, last) ==
  [probe EXCEPT !.done = ~st.running,
                !.result = [st |-> st, z |-> z, last |-> last]]

IterateHalley ==
  /\ probe.op = "pixel"
  /\ probe.result.st.running
  /\ probe.args[1] \in PolynomialKeys
  /\ LET h == halleyIterate(probe.result.z, probe.args[1])
         mag == Mag(h.z)
     IN  probe' = AfterIteration(LoopBody(probe.result.st, Returned(mag)), h.z,
                                 [kind |-> "halley", dfz |-> h.dfz,
                                  numerator |-> h.numerator, mag |-> mag])
  /\ UNCHANGED component

IterateOracle ==
  /\ probe.op = "pixel"
  /\ probe.result.st.running
  /\ functions(probe.args[1]).kind = "entry"
  /\ probe.args[1] \notin PolynomialKeys
  /\ \E mag \in OracleMags :
       probe' = AfterIteration(LoopBody(probe.result.st, Returned(mag)), Null,
                               [kind |-> "oracle", mag |-> mag])
  /\ UNCHANGED component

IterateThrow ==
  /\ probe.op = "pixel"
  /\ probe.result.st.running
  /\ functions(probe.args[1]).kind = "inherited"
  /\ probe' = AfterIteration(LoopBody(probe.result.st, Thrown), Null,
                             [kind |-> "throw"])
  /\ UNCHANGED component

NextPixel ==
  \/ IterateHalley
  \/ IterateOracle
  \/ IterateThrow

SpecPixel == InitPixel /\ [][NextPixel]_vars

(***************************************************************************)
(* handlePan as the key handler calls it (lines 859-871), on the viewports *)
(* the page can show: those of the URL hashes and those the aspect-ratio   *)
(* watcher makes of the default one.                                       *)
(***************************************************************************)
ArrowKeys == { "ArrowUp", "ArrowDown", "ArrowLeft", "ArrowRight" }

\* the dx, dy of the handlePan call of each case of the switch
ArrowDirection(key) ==
  CASE key = "ArrowUp" -> << 0, 1 >>
    [] key = "ArrowDown" -> << 0, -1 >>
    [] key = "ArrowLeft" -> << -1, 0 >>
    [] key = "ArrowRight" -> << 1, 0 >>

PanBoundsInputs ==
  { getInitialState(h).bounds : h \in HashInputs }
    \cup { AdjustBounds(defaults.bounds, r, ar) :
             r \in ResolutionInputs, ar \in VALID_ASPECT_RATIOS }

InitPan ==
  /\ setup
  /\ resolution = defaults.resolution
  /\ maxIter = defaults.maxIter
  /\ bounds = defaults.bounds
  /\ \E b \in PanBoundsInputs, key \in ArrowKeys, shiftKey \in BOOLEAN :
       probe = [NoProbe EXCEPT
                  !.op = "handlePan",
                  !.args = << b, ArrowDirection(key)[1], ArrowDirection(key)[2],
                              shiftKey >>]

ApplyHandlePan ==
  /\ probe.op = "handlePan"
  /\ ~probe.done
  /\ probe' = [probe EXCEPT
                 !.done = TRUE,
                 !.result = handlePan(probe.args[1], probe.args[2], probe.args[3],
                                      probe.args[4])]
  /\ UNCHANGED component

NextPan == ApplyHandlePan

SpecPan == InitPan /\ [][NextPan]_vars

(***************************************************************************)
(* Sharing a view: the watcher that writes the URL hash (lines 260-285)    *)
(* and getInitialState reading it back.  The render passes play no part   *)
(* in it and are left out.  The view's bounds are bounds * 2^scale, so     *)
(* that zooming out can be followed past 1e10; a written hash is given by  *)
(* the values of its parameters as they stand in the string.               *)
(***************************************************************************)
\* x.toString() for an integer x >= 0, as decimal digits
RECURSIVE IntToString(_)
IntToString(x) == IF x < 10 THEN << x >> ELSE Append(IntToString(x \div 10), x % 10)

\* parseInt of a string of decimal digits; NaN for the empty string (and for
\* null, lines 120 and 128)
RECURSIVE DigitsValue(_)
DigitsValue(ds) ==
  IF ds = << >> THEN 0 ELSE 10 * DigitsValue(SubSeq(ds, 1, Len(ds) - 1)) + ds[Len(ds)]
parseInt(ds) == IF ds = << >> THEN NaN ELSE Num(DigitsValue(ds))

\* r * 2^e has at most ten decimals: the denominator of r divides 2^(10+e) * 5^10
RECURSIVE DividesOut(_, _, _)
DividesOut(d, q, left) ==
  IF d % q # 0 THEN d ELSE IF left = 0 THEN d ELSE DividesOut(d \div q, q, left - 1)
TenDecimals(r, e) == DividesOut(DividesOut(r.d, 2, 10 + e), 5, 10) = 1

\* x.toFixed(10) (lines 278-281) for x = r * 2^e: the decimal numeral with ten
\* decimals nearest to x, given by the value it denotes, which is x itself
\* when x has no more than ten decimals
toFixed10(r, e) == [of |-> r, scale |-> e, rounded |-> ~TenDecimals(r, e)]

\* |r * 2^e| < 1e10, for |r.n| < 2^21 and r.d < 220
Below1e10(r, e) ==
  \/ e < 10
  \/ r.n = 0
  \/ Pow2(e - 10) <= (r.d * 9765625 - 1) \div Abs(r.n)

\* a parameter that the hash does not have, where a numeral is looked for
Missing == [missing |-> TRUE]

\* parseFloat of a numeral written by toFixed10, then the test of lines
\* 150-153; NaN for a missing parameter
parseFloat(numeral) ==
  IF numeral = Missing THEN NaN
  ELSE IF Below1e10(numeral.of, numeral.scale) THEN Num(numeral)
  ELSE Huge

\* URLSearchParams.toString() (line 283) escapes every character but these,
\* and a character already escaped once more
FormUnreserved == AlphaNumeric \cup { "*", "-", ".", "_" }
FormSerialize(text) ==
  [ k \in DOMAIN text |->
      IF text[k].esc = 0 /\ text[k].c \in FormUnreserved
      THEN text[k] ELSE [text[k] EXCEPT !.esc = @ + 1] ]

\* new URLSearchParams(hash).get (lines 117, 124) takes one layer off
FormParse(text) ==
  [ k \in DOMAIN text |->
      IF text[k].esc > 0 THEN [text[k] EXCEPT !.esc = @ - 1] ELSE text[k] ]

\* the hash of a URL without one
EmptyHash ==
  [ f |-> << >>, res |-> << >>, aspect |-> Null, iter |-> << >>, color |-> Null,
    even |-> Null, x1 |-> Missing, x2 |-> Missing, y1 |-> Missing, y2 |-> Missing ]

\* newHash (lines 267-283) for the view v
WriteHash(v) ==
  [ f |-> FormSerialize(encodeURIComponent(FormulaText[v.formula])),
    res |-> IntToString(v.resolution),
    aspect |-> v.aspectRatio,
    iter |-> IntToString(v.maxIter),
    color |-> v.colorScheme,
    even |-> IF v.evenIterOnly THEN "true" ELSE Null,
    x1 |-> toFixed10(v.bounds.minX, v.scale),
    x2 |-> toFixed10(v.bounds.maxX, v.scale),
    y1 |-> toFixed10(v.bounds.minY, v.scale),
    y2 |-> toFixed10(v.bounds.maxY, v.scale) ]

\* the parameters of a hash as getInitialState's parsers see them
\* (lines 117-147)
ReadParams(h) ==
  [ res |-> parseInt(h.res), f |-> FormParse(h.f), iter |-> parseInt(h.iter),
    color |-> h.color, aspect |-> h.aspect, even |-> h.even,
    x1 |-> parseFloat(h.x1), x2 |-> parseFloat(h.x2),
    y1 |-> parseFloat(h.y1), y2 |-> parseFloat(h.y2) ]

\* handleZoom (lines 888-919)
handleZoom(b, dims, baselineFactor, shiftKey) ==
  LET canvasAspect == Rat(dims.width, dims.height)
      centerX == RHalf(RAdd(b.minX, b.maxX))
      centerY == RHalf(RAdd(b.minY, b.maxY))
      factor == IF shiftKey
                THEN (IF RLess(RInt(1), baselineFactor) THEN Rat(12, 10) ELSE Rat(10, 12))
                ELSE baselineFactor
      rangeX == RDiv(RSub(b.maxX, b.minX), factor)
      rangeY == RDiv(RSub(b.maxY, b.minY), factor)
      adjust == RLess(Rat(1, 100), RAbs(RSub(RDiv(rangeX, rangeY), canvasAspect)))
      wider == RLess(RInt(1), canvasAspect)
      newRangeX == IF adjust /\ wider THEN RMul(rangeY, canvasAspect) ELSE rangeX
      newRangeY == IF adjust /\ ~wider THEN RDiv(rangeX, canvasAspect) ELSE rangeY
  IN  [ minX |-> RSub(centerX, RHalf(newRangeX)),
        maxX |-> RAdd(centerX, RHalf(newRangeX)),
        minY |-> RSub(centerY, RHalf(newRangeY)),
        maxY |-> RAdd(centerY, RHalf(newRangeY)) ]

\* bounds * 2^scale with the common factors of two moved into the scale
Rescale(b, scale) ==
  IF \A k \in DOMAIN b : b[k].n % 2 = 0 /\ b[k].n # 0
  THEN [ bounds |-> [k \in DOMAIN b |-> Rat(b[k].n \div 2, b[k].d)],
         scale |-> scale + 1 ]
  ELSE [bounds |-> b, scale |-> scale]

\* presses of the '-' key followed from the default zoom
MaxZoomOut == 33

ShareFormulaInputs == { "z^5 - z^2", "z^3 + (0.3+0.5i)", "sin(z)*exp(z) - 1" }
ShareResolutionInputs == { 100 }
ShareMaxIterInputs == { 20, 150 }
ShareColorSchemeInputs == { "hsv-8" }
ShareAspectRatioInputs == { "16:9" }

NotOpened == [kind |-> "none"]

\* the page opened without a hash
InitShare ==
  /\ setup
  /\ resolution = defaults.resolution
  /\ maxIter = defaults.maxIter
  /\ bounds = defaults.bounds
  /\ probe = [NoProbe EXCEPT
                !.op = "share",
                !.result =
                  [ view |-> getInitialState(ReadParams(EmptyHash)) @@ [scale |-> 0],
                    isInitialized |-> FALSE,
                    hash |-> EmptyHash,
                    changed |-> FALSE,
                    opened |-> NotOpened ]]

\* the refs become those of view v, and the URL watcher runs (lines 261-284)
ShareChange(v) ==
  /\ probe.op = "share"
  /\ v # probe.result.view
  /\ probe' = [probe EXCEPT
                 !.result.view = v,
                 !.result.changed = TRUE,
                 !.result.isInitialized = TRUE,
                 !.result.hash = IF probe.result.isInitialized THEN WriteHash(v) ELSE @,
                 !.result.opened = NotOpened]
  /\ UNCHANGED component

\* one of the controls is set (lines 1285, 1338, 1367, 1383, 1406, 1453); a
\* change of the canvas dimensions runs the aspect watcher first (lines 226-258)
ShareSet ==
  LET v == probe.result.view
  IN  \/ \E f \in ShareFormulaInputs : ShareChange([v EXCEPT !.formula = f])
      \/ \E mi \in ShareMaxIterInputs : ShareChange([v EXCEPT !.maxIter = mi])
      \/ \E cs \in ShareColorSchemeInputs : ShareChange([v EXCEPT !.colorScheme = cs])
      \/ ShareChange([v EXCEPT !.evenIterOnly = ~@])
      \/ \E res \in ShareResolutionInputs :
           LET w == [v EXCEPT !.resolution = res]
           IN  ShareChange([w EXCEPT !.bounds = AdjustBounds(v.bounds, res, v.aspectRatio)])
      \/ \E ar \in ShareAspectRatioInputs :
           LET w == [v EXCEPT !.aspectRatio = ar]
           IN  ShareChange([w EXCEPT !.bounds = AdjustBounds(v.bounds, v.resolution, ar)])

\* the '-' key or the zoom-out button: handleZoom(0.5, false) (lines 876-878, 1174)
ShareZoomOut ==
  /\ probe.op = "share"
  /\ probe.result.view.scale < MaxZoomOut
  /\ LET v == probe.result.view
         z == Rescale(handleZoom(v.bounds, canvasDimensions(v.resolution, v.aspectRatio),
                                 Rat(1, 2), FALSE), v.scale)
     IN  ShareChange([v EXCEPT !.bounds = z.bounds, !.scale = z.scale])

\* the URL the watcher wrote is opened: getInitialState reads the hash
OpenSharedLink ==
  /\ probe.op = "share"
  /\ probe.result.hash # EmptyHash
  /\ probe.result.opened = NotOpened
  /\ probe' = [probe EXCEPT
                 !.result.opened =
                   [ kind |-> "state",
                     state |-> getInitialState(ReadParams(probe.result.hash)) ]]
  /\ UNCHANGED component

NextShare ==
  \/ ShareSet
  \/ ShareZoomOut
  \/ OpenSharedLink

SpecShare == InitShare /\ [][NextShare]_vars

(***************************************************************************)
(* getInitialState on URL hashes of every kind: parameters missing, valid, *)
(* out of range, unknown, malformed.                                       *)
(***************************************************************************)
ParseInputs ==
  [ res : { NaN, Num(50), Num(500), Num(18001) },
    f : { << >>, FormulaText["z^5 - z^2"],
          encodeURIComponent(FormulaText["(z^2 + 1)/(z^3 - 1)"]),
          Str(<< "z" >>), Str(<< "%" >>) },
    iter : { NaN, Num(9), Num(200) },
    color : { Null, "fire", "nonexistent" },
    aspect : { Null, "21:9", "2:1" },
    even : { Null, "true", "1", "yes" },
    x1 : { NaN, Num(Rat(-1, 2)), Huge },
    x2 : { NaN, Num(RInt(7)) },
    y1 : { NaN },
    y2 : { NaN, Huge } ]

InitParse ==
  /\ setup
  /\ resolution = defaults.resolution
  /\ maxIter = defaults.maxIter
  /\ bounds = defaults.bounds
  /\ \E hash \in ParseInputs :
       probe = [NoProbe EXCEPT !.op = "getInitialState", !.args = << hash >>]

ApplyGetInitialState ==
  /\ probe.op = "getInitialState"
  /\ ~probe.done
  /\ probe' = [probe EXCEPT !.done = TRUE,
                            !.result = getInitialState(probe.args[1])]
  /\ UNCHANGED component

NextParse == ApplyGetInitialState

SpecParse == InitParse /\ [][NextParse]_vars

(***************************************************************************)
(* The catalogues against the code that takes their keys: the registry     *)
(* lookup of renderFractal, the switch of getColor, the presets.           *)
(***************************************************************************)
\* the case labels of getColor's switch without 'marin'
GetColorCases_WithoutMarin ==
  { "rainbow", "fire", "ocean", "neon", "grayscale", "plasma", "viridis", "sunset",
    "copper", "aurora", "cyberpunk", "hsv-8", "hsv-16", "hsv-32" }

\* the case labels of getColor's switch (lines 597-709)
GetColorCases ==
  { "rainbow", "fire", "ocean", "neon", "grayscale", "plasma", "viridis", "sunset",
    "copper", "aurora", "cyberpunk", "marin", "hsv-8", "hsv-16", "hsv-32" }

\* the branch of the switch taken for a scheme
ColorBranch(scheme) == IF scheme \in GetColorCases THEN "case" ELSE "default"

\* PRESETS (lines 24-95); the bounds of a preset play no part in the lookups
\* and are left out
PRESETS ==
  [ k \in { "default", "frog", "fireburst", "goofy", "reach", "deadhead", "miwok" } |->
      CASE k = "default" ->
             [ formula |-> "z^3 - 1", aspectRatio |-> "1:1", colorScheme |-> "rainbow",
               maxIter |-> 50, resolution |-> 300, evenIterOnly |-> FALSE ]
        [] k = "frog" ->
             [ formula |-> "z^5 - z^2", aspectRatio |-> "16:9", colorScheme |-> "rainbow",
               maxIter |-> 30, resolution |-> 1100, evenIterOnly |-> FALSE ]
        [] k = "fireburst" ->
             [ formula |-> "sin(z^2) - 1", aspectRatio |-> "16:9", colorScheme |-> "fire",
               maxIter |-> 50, resolution |-> 1200, evenIterOnly |-> FALSE ]
        [] k = "goofy" ->
             [ formula |-> "z*exp(z) - 1", aspectRatio |-> "1:1", colorScheme |-> "rainbow",
               maxIter |-> 50, resolution |-> 700, evenIterOnly |-> FALSE ]
        [] k = "reach" ->
             [ formula |-> "z^6 + z^3 - 1", aspectRatio |-> "16:9",
               colorScheme |-> "hsv-32",
               maxIter |-> 50, resolution |-> 1300, evenIterOnly |-> FALSE ]
        [] k = "deadhead" ->
             [ formula |-> "z^5 + z - 1", aspectRatio |-> "16:9", colorScheme |-> "hsv-8",
               maxIter |-> 50, resolution |-> 1300, evenIterOnly |-> TRUE ]
        [] k = "miwok" ->
             [ formula |-> "z^5 + z - 1", aspectRatio |-> "16:9", colorScheme |-> "marin",
               maxIter |-> 20, resolution |-> 900, evenIterOnly |-> TRUE ] ]

\* the keys looked up: those of the lists, those the code has, and others
CatalogueInputs ==
  { << "formula", k >> : k \in VALID_FORMULAS \cup FunctionKeys \cup EngineFormulaInputs }
    \cup { << "colorScheme", k >> :
             k \in VALID_COLOR_SCHEMES \cup GetColorCases \cup EngineColorSchemeInputs }
    \cup { << "preset", k >> : k \in DOMAIN PRESETS }

InitCatalogue ==
  /\ setup
  /\ resolution = defaults.resolution
  /\ maxIter = defaults.maxIter
  /\ bounds = defaults.bounds
  /\ \E in \in CatalogueInputs :
       probe = [NoProbe EXCEPT !.op = "lookup", !.args = in]

\* functions[key] (line 757), the switch of getColor (line 597) for a scheme
\* below maxIter, PRESETS[key] (line 198)
Lookup ==
  /\ probe.op = "lookup"
  /\ ~probe.done
  /\ LET key == probe.args[2]
     IN  probe' =
           [probe EXCEPT
              !.done = TRUE,
              !.result =
                CASE probe.args[1] = "formula" -> [func |-> functions(key)]
                  [] probe.args[1] = "colorScheme" ->
                       [ branch |-> ColorBranch(key),
                         color |-> getColor(0, defaults.maxIter, key) ]
                  [] probe.args[1] = "preset" -> [preset |-> PRESETS[key]] ]
  /\ UNCHANGED component

NextCatalogue == Lookup

SpecCatalogue == InitCatalogue /\ [][NextCatalogue]_vars

(***************************************************************************)
(* handleCanvasClick (lines 985-1007).  e is the mouse event (clientX,      *)
(* clientY, shiftKey), rect the canvas's getBoundingClientRect(), dims the *)
(* value of canvasDimensions.                                              *)
(***************************************************************************)
handleCanvasClick(b, dims, rect, e) ==
  LET scaleX == Rat(dims.width, rect.width)
      scaleY == Rat(dims.height, rect.height)
      px == RMul(RInt(e.clientX - rect.left), scaleX)
      py == RMul(RInt(e.clientY - rect.top), scaleY)
      x == RAdd(b.minX, RMul(RDiv(px, RInt(dims.width)), RSub(b.maxX, b.minX)))
      y == RSub(b.maxY, RMul(RDiv(py, RInt(dims.height)), RSub(b.maxY, b.minY)))
      rangeX == RHalf(RSub(b.maxX, b.minX))
      rangeY == RHalf(RSub(b.maxY, b.minY))
  IN  [ minX |-> RSub(x, RHalf(rangeX)), maxX |-> RAdd(x, RHalf(rangeX)),
        minY |-> RSub(y, RHalf(rangeY)), maxY |-> RAdd(y, RHalf(rangeY)) ]

\* the canvas as laid out on the page, and clicks on it: at its top left
\* corner, at its centre, and off centre; with and without Shift
RectInputs == { [left |-> 10, top |-> 20, width |-> 600, height |-> 400] }
ClickInputs ==
  { [clientX |-> c[1], clientY |-> c[2], shiftKey |-> sh] :
      c \in { << 10, 20 >>, << 310, 220 >>, << 460, 120 >> }, sh \in BOOLEAN }

InitClick ==
  /\ setup
  /\ resolution = defaults.resolution
  /\ maxIter = defaults.maxIter
  /\ bounds = defaults.bounds
  /\ \E b \in PanBoundsInputs, res \in ResolutionInputs, rect \in RectInputs,
        e \in ClickInputs :
       probe = [NoProbe EXCEPT
                  !.op = "handleCanvasClick",
                  !.args = << b, canvasDimensions(res, "16:9"), rect, e >>]

ApplyHandleCanvasClick ==
  /\ probe.op = "handleCanvasClick"
  /\ ~probe.done
  /\ probe' = [probe EXCEPT
                 !.done = TRUE,
                 !.result = handleCanvasClick(probe.args[1], probe.args[2],
                                              probe.args[3], probe.args[4])]
  /\ UNCHANGED component

NextClick == ApplyHandleCanvasClick

SpecClick == InitClick /\ [][NextClick]_vars

(***************************************************************************)
(* One pass of renderFractal, one pixel at a time (lines 763-829): the     *)
(* canvas of resolution 100 and aspect ratio 21:9, the outcome of every    *)
(* pixel's iteration loop drawn from a few orbits.                         *)
(***************************************************************************)
RasterFormulaInputs == { "z^3 - 1", "constructor" }
RasterDimensions == canvasDimensions(100, "21:9")

\* orbits of a registry entry: a root, a start that settles at the fourth step,
\* a start that escapes at the eleventh step, a critical point
EntryOrbits ==
  { << Returned(DInt(1)) >>,
    << Returned(DInt(0)), Returned(DInt(1)), Returned(DInt(2)) >>,
    << Returned(DInt(1)), Returned(DInt(2)), Returned(DInt(1)), Returned(DInt(2)),
       Returned(DInt(1)), Returned(DInt(2)), Returned(DInt(1)), Returned(DInt(2)),
       Returned(DInt(1)), Returned(DInt(2)), Returned(DBig) >>,
    << Returned(DNaN) >> }

\* the outcomes halleyIterate can have for func at the pixels of a pass
Orbits(func) == IF func.kind = "entry" THEN EntryOrbits ELSE { << Thrown >> }

InitRaster ==
  /\ setup
  /\ resolution = defaults.resolution
  /\ maxIter = defaults.maxIter
  /\ bounds = defaults.bounds
  /\ \E f \in RasterFormulaInputs, ev \in BOOLEAN :
       probe = [NoProbe EXCEPT
                  !.op = "raster",
                  !.args = << f, RasterDimensions.width, RasterDimensions.height, ev >>,
                  !.result =
                    [ chunkSize |-> Max(1, RasterDimensions.height \div 32),
                      startRow |-> 0, py |-> 0, px |-> 0, runs |-> << >>,
                      status |-> "pixels", failed |-> FALSE,
                      lastWrite |-> [idx |-> -1], image |-> << >> ]]

\* one iteration of the px loop (lines 777-820) and the loop tests after it
WritePixel ==
  /\ probe.op = "raster"
  /\ probe.result.status = "pixels"
  /\ \E orbit \in Orbits(functions(probe.args[1])) :
       LET r == probe.result
           width == probe.args[2]
           height == probe.args[3]
           endRow == Min(r.startRow + r.chunkSize, height)
           cls == Classify(LoopStart(maxIter), orbit)
           color == pixelColor(cls.iterations, maxIter, colorScheme, probe.args[4])
           idx == PixelIndex(r.px, r.py, width)
           rowDone == r.px + 1 >= width
           chunkDone == rowDone /\ r.py + 1 >= endRow
       IN  IF cls.exit = "uncaught"
           THEN probe' = [probe EXCEPT !.result.status = "aborted"]
           ELSE probe' =
                  [probe EXCEPT
                     !.result.runs = WritePixelBytes(r.runs, idx, 255),
                     !.result.lastWrite =
                       [idx |-> idx, iterations |-> cls.iterations,
                        exit |-> cls.exit, color |-> color],
                     !.result.failed = r.failed \/ cls.exit \in { "catch", "divergence" },
                     !.result.px = IF rowDone THEN 0 ELSE r.px + 1,
                     !.result.py = IF rowDone THEN r.py + 1 ELSE r.py,
                     !.result.status = IF chunkDone THEN "yield" ELSE "pixels"]
  /\ UNCHANGED component

\* the pass is resumed after the await of line 824 and starts its next chunk
ResumeChunk ==
  /\ probe.op = "raster"
  /\ probe.result.status = "yield"
  /\ probe.result.startRow + probe.result.chunkSize < probe.args[3]
  /\ probe' = [probe EXCEPT
                 !.result.startRow = probe.result.startRow + probe.result.chunkSize,
                 !.result.status = "pixels"]
  /\ UNCHANGED component

\* the pass is resumed after its last chunk: putImageData (line 827)
CommitRaster ==
  /\ probe.op = "raster"
  /\ probe.result.status = "yield"
  /\ probe.result.startRow + probe.result.chunkSize >= probe.args[3]
  /\ probe' = [probe EXCEPT !.done = TRUE,
                            !.result.status = "committed",
                            !.result.image = probe.result.runs]
  /\ UNCHANGED component

NextRaster ==
  \/ WritePixel
  \/ ResumeChunk
  \/ CommitRaster

SpecRaster == InitRaster /\ [][NextRaster]_vars

(***************************************************************************)
(* Properties.                                                             *)
(***************************************************************************)
Running(i) == i \in DOMAIN passes /\ passes[i].status = "running"
Committed(i) == i \in DOMAIN passes /\ passes[i].status = "committed"
InFlight == { i \in DOMAIN passes : passes[i].status = "running" }
Last(seq) == seq[Len(seq)]

\* C1: a pass that was superseded (renderFractal has been called again since it
\* started) never commits its buffer to the canvas.
C1_SupersededPassNeverCommits ==
  [][\A i \in DOMAIN passes :
       (passes[i].status = "running" /\ passes'[i].status = "committed")
         => i = Len(passes)]_vars

\* C2: at most one render pass is in flight in every reachable state.
C2_AtMostOneInFlight == Cardinality(InFlight) <= 1

\* C3: every row of a committed image was computed with the values of maxIter,
\* colorScheme and evenIterOnly in force when its pass started.
C3_CommittedImageOneTuple ==
  canvasImage # Blank =>
    \A k \in DOMAIN canvasImage.rows :
      canvasImage.rows[k].lv = passes[canvasImage.id].start

\* C4: once no pass is in flight, the image on the canvas is the one computed
\* by the most recently issued request.
C4_LatestRequestOnCanvas ==
  (mounted /\ InFlight = {}) =>
    /\ canvasImage # Blank
    /\ canvasImage.id = Len(passes)
    /\ \A k \in DOMAIN canvasImage.rows :
         canvasImage.rows[k].lv = Live(maxIter, colorScheme, evenIterOnly)

\* C5: the progress values one pass reports are integers in 0..100, never
\* decrease, and end with 100 when the pass has finished.
C5_ProgressOfOnePass ==
  \A i \in DOMAIN passes :
    LET r == passes[i].reported
    IN  /\ \A k \in DOMAIN r : r[k] \in 0..100
        /\ \A k \in 1..(Len(r) - 1) : r[k] <= r[k + 1]
        /\ Committed(i) => Last(r) = 100

\* a pass has finished after reporting values strictly between 0 and 100,
\* while another pass was in flight
C5_Witness ==
  \E i \in DOMAIN passes :
    /\ Committed(i)
    /\ \E k \in DOMAIN passes[i].reported : passes[i].reported[k] \in 1..99
    /\ InFlight # {}

\* C6: isRendering is true in every state in which some pass is in flight.
C6_RenderingWhileInFlight == (InFlight # {}) => isRendering

C8_UnknownKeyStartsNoPass ==
  \A i \in DOMAIN passes : passes[i].formula \in FunctionKeys

\* C9: no pass runs for a request with an unknown colour scheme or a
\* degenerate viewport.
C9_InvalidRequestStartsNoPass ==
  \A i \in DOMAIN passes :
    /\ passes[i].start.colorScheme \in VALID_COLOR_SCHEMES
    /\ RLess(passes[i].minX, passes[i].maxX)
    /\ RLess(passes[i].minY, passes[i].maxY)

\* C10: getColor returns black for every iteration count at or above
\* maxIterValue, whatever the scheme key, known or not.
C10_BlackAtMaxIter ==
  (probe.op = "getColor" /\ probe.done /\ probe.args[1] >= probe.args[2])
    => probe.result = RGB(0, 0, 0)

\* getColor has returned black for a count above maxIterValue and a key outside
\* the catalogue
C10_Witness ==
  /\ probe.op = "getColor"
  /\ probe.done
  /\ probe.args[1] > probe.args[2]
  /\ probe.args[3] \notin VALID_COLOR_SCHEMES
  /\ probe.result = RGB(0, 0, 0)

\* C11: with the even-iterations-only flag set, a pixel whose count is odd and
\* below maxIter is black, and a pixel whose count is even has the colour it
\* has with the flag clear.
C11_EvenFilter ==
  (probe.op = "pixelColor" /\ probe.done) =>
    /\ (probe.args[1] % 2 = 1 /\ probe.args[1] < probe.args[2])
         => probe.result.on = RGB(0, 0, 0)
    /\ probe.args[1] % 2 = 0 => probe.result.on = probe.result.off

\* an odd count below maxIter is coloured with the flag clear and black with
\* the flag set
C11_Witness ==
  /\ probe.op = "pixelColor"
  /\ probe.done
  /\ probe.args[1] % 2 = 1
  /\ probe.args[1] < probe.args[2]
  /\ probe.result.off # RGB(0, 0, 0)
  /\ probe.result.on = RGB(0, 0, 0)

\* C12: for hsv-8, hsv-16 and hsv-32 two counts below their maxIter that are
\* congruent modulo the scheme's modulus get the same colour, whatever the two
\* maxIter values are.
C12_HsvDependsOnResidue ==
  (probe.op = "getColor2" /\ probe.done
     /\ probe.args[1] % HsvModulus(probe.args[5])
          = probe.args[3] % HsvModulus(probe.args[5]))
    => probe.result[1] = probe.result[2]

\* two different counts with different maxIter, congruent modulo 32, have got
\* the same colour, which is not black
C12_Witness ==
  /\ probe.op = "getColor2"
  /\ probe.done
  /\ probe.args[5] = "hsv-32"
  /\ probe.args[1] = probe.args[3] + 32
  /\ probe.args[2] # probe.args[4]
  /\ probe.result[1] = probe.result[2]
  /\ probe.result[1] # RGB(0, 0, 0)

ContinuousSchemes ==
  { "rainbow", "fire", "ocean", "neon", "grayscale", "plasma", "viridis", "sunset",
    "copper", "aurora", "cyberpunk", "marin" }

\* C13: for a continuous scheme and a count below maxIter each channel
\* getColor returns is an integer in 0..255.
C13_ChannelsInRange ==
  (probe.op = "getColor" /\ probe.done /\ probe.args[3] \in ContinuousSchemes
     /\ probe.args[1] < probe.args[2])
    => /\ probe.result.r \in 0..255
       /\ probe.result.g \in 0..255
       /\ probe.result.b \in 0..255

\* viridis has returned, for the count 0, a blue channel that the clamp brought
\* up to 0
C13_Witness ==
  /\ probe.op = "getColor"
  /\ probe.done
  /\ probe.args[3] = "viridis"
  /\ probe.args[1] = 0
  /\ probe.result.b = 0

\* C14: the iteration loop of a pixel ends with a count in 0..maxIter; the
\* count is below maxIter exactly when the stagnation test fired, at a step
\* k >= 1 and with count k; a magnitude above 1e10 or NaN, a throw and the
\* exhausted budget all give maxIter.
C14_CountOfPixel ==
  (probe.op = "pixel" /\ probe.done) =>
    LET st == probe.result.st
    IN  /\ st.iterations \in 0..st.maxIter
        /\ st.iterations < st.maxIter <=> st.exit = "stagnation"
        /\ st.exit = "stagnation" => (st.k >= 1 /\ st.iterations = st.k)
        /\ st.exit \in { "divergence", "catch", "exhausted" }
             => st.iterations = st.maxIter

\* the stagnation test has fired at a step after the first one at which it is
\* evaluated
C14_Witness ==
  /\ probe.op = "pixel"
  /\ probe.done
  /\ probe.result.st.exit = "stagnation"
  /\ probe.result.st.iterations > 1
  /\ probe.result.st.iterations < probe.result.st.maxIter

\* C15: a Halley step at a point where the derivative is zero does not throw:
\* the numerator cDiv returns is (Infinity, Infinity), the magnitude of the new
\* point is infinite or NaN, and the pixel ends with the count maxIter, black.
C15_ZeroDerivativeStep ==
  (probe.op = "pixel" /\ probe.result.last.kind = "halley"
     /\ DIsZero(probe.result.last.dfz.re) /\ DIsZero(probe.result.last.dfz.im))
    => /\ probe.result.last.numerator = Cx(DInf(1), DInf(1))
       /\ probe.result.last.mag.k \in { "inf", "nan" }
       /\ probe.done
       /\ probe.result.st.exit = "divergence"
       /\ probe.result.st.iterations = probe.result.st.maxIter
       /\ getColor(probe.result.st.iterations, probe.result.st.maxIter, colorScheme)
            = RGB(0, 0, 0)

\* the step from the start point 0 under z^3 - 1 has been taken
C15_Witness ==
  /\ probe.op = "pixel"
  /\ probe.args[1] = "z^3 - 1"
  /\ probe.args[2] = CInt(0, 0)
  /\ probe.done
  /\ probe.result.last.mag = DNaN
  /\ probe.result.st.iterations = probe.result.st.maxIter

\* C16: a pixel at which the evaluation throws or yields NaN or Infinity gets
\* the count maxIter and is written black, the pass goes on with the next
\* pixel, and when the pass commits every pixel has been written.
C16_FailureDoesNotAbort ==
  (probe.op = "raster") =>
    LET r == probe.result
        w == r.lastWrite
    IN  /\ r.status # "aborted"
        /\ (w.idx >= 0 /\ w.exit \in { "catch", "divergence" })
             => /\ w.iterations = maxIter
                /\ w.color = RGB(0, 0, 0)
                /\ \/ r.status \in { "yield", "committed" }
                   \/ PixelIndex(r.px, r.py, probe.args[2]) = w.idx + 4
        /\ (r.failed /\ r.status = "committed")
             => /\ Len(r.image) = 1
                /\ r.image[1].last + 1 = probe.args[2] * probe.args[3] * 4

\* a pass in which the evaluation threw at a pixel has committed
C16_Witness ==
  /\ probe.op = "raster"
  /\ probe.args[1] = "constructor"
  /\ probe.result.status = "committed"
  /\ probe.result.failed
  /\ probe.result.lastWrite.exit = "catch"

\* C17: when a pass commits, each of its width * height pixels has been
\* written once, at the byte offset (py * width + px) * 4 in row-major order
\* from row 0, with the alpha byte 255; before that, the pixels written are
\* those before the current one in that order.
C17_RowMajorOpaque ==
  (probe.op = "raster") =>
    LET r == probe.result
        width == probe.args[2]
        height == probe.args[3]
        written == r.py * width + r.px
    IN  /\ written = 0 => r.runs = << >>
        /\ written > 0 =>
             r.runs = << [first |-> 0, last |-> written * 4 - 1, alpha |-> 255] >>
        /\ r.status = "committed" =>
             r.image = << [first |-> 0, last |-> width * height * 4 - 1,
                           alpha |-> 255] >>

\* a pass has committed the image of a canvas of more than one row and chunk
C17_Witness ==
  /\ probe.op = "raster"
  /\ probe.result.status = "committed"
  /\ probe.args[3] > 32
  /\ probe.result.image[1].last = probe.args[2] * probe.args[3] * 4 - 1

\* C19: in every state the viewport has maxX > minX and maxY > minY.
C19_ViewportInvariant ==
  /\ RLess(bounds.minX, bounds.maxX)
  /\ RLess(bounds.minY, bounds.maxY)

C21_ClickZoomFactor ==
  (probe.op = "handleCanvasClick" /\ probe.done) =>
    LET b == probe.args[1]
        rect == probe.args[3]
        e == probe.args[4]
        n == probe.result
        factor == IF e.shiftKey THEN Rat(6, 5) ELSE RInt(2)
        x == RAdd(b.minX, RMul(Rat(e.clientX - rect.left, rect.width),
                               RSub(b.maxX, b.minX)))
        y == RSub(b.maxY, RMul(Rat(e.clientY - rect.top, rect.height),
                               RSub(b.maxY, b.minY)))
    IN  /\ RHalf(RAdd(n.minX, n.maxX)) = x
        /\ RHalf(RAdd(n.minY, n.maxY)) = y
        /\ RSub(n.maxX, n.minX) = RDiv(RSub(b.maxX, b.minX), factor)
        /\ RSub(n.maxY, n.minY) = RDiv(RSub(b.maxY, b.minY), factor)

\* C22: a key is in VALID_FORMULAS exactly when the registry has an entry of
\* its own for it; a key of VALID_COLOR_SCHEMES is coloured by a case of
\* getColor's switch, not its default branch; the formula and the colour
\* scheme of every preset are in the lists.
C22_ListsAreTheAcceptedKeys ==
  (probe.op = "lookup" /\ probe.done) =>
    LET key == probe.args[2]
        r == probe.result
    IN  CASE probe.args[1] = "formula" ->
               (key \in VALID_FORMULAS) <=> (r.func.kind = "entry")
          [] probe.args[1] = "colorScheme" ->
               /\ (key \in VALID_COLOR_SCHEMES) => (r.branch = "case")
               /\ (r.branch = "default") => (r.color = RGB(255, 255, 255))
          [] probe.args[1] = "preset" ->
               /\ r.preset.formula \in VALID_FORMULAS
               /\ r.preset.colorScheme \in VALID_COLOR_SCHEMES

\* the scheme of the preset 'miwok' has been looked up in getColor's switch
C22_Witness ==
  /\ probe.op = "lookup"
  /\ probe.done
  /\ probe.args = << "colorScheme", PRESETS["miwok"].colorScheme >>
  /\ probe.result.branch = "case"

\* C23: a pass works through its rows in chunks of max(1, floor(height / 32))
\* rows, in ascending order, each row once; after its k-th chunk it has set
\* progress to floor(100 * rowsCompleted / height) and yielded once, so that it
\* has yielded ceil(height / chunkSize) times when it commits.
C23_ChunksAndProgress ==
  \A i \in DOMAIN passes :
    LET p == passes[i]
        chunks == Len(p.reported) - 1 - (IF p.status = "committed" THEN 1 ELSE 0)
        rowsCompleted(k) == Min(k * p.chunkSize, p.height)
    IN  /\ p.chunkSize = Max(1, p.height \div 32)
        /\ p.startRow = chunks * p.chunkSize
        /\ p.rows[1].first = 0
        /\ p.rows[Len(p.rows)].last = rowsCompleted(chunks) - 1
        /\ \A k \in 1..(Len(p.rows) - 1) : p.rows[k].last + 1 = p.rows[k + 1].first
        /\ \A k \in 1..chunks :
             p.reported[k + 1] = (100 * rowsCompleted(k)) \div p.height
        /\ p.status = "committed" =>
             chunks = (p.height + p.chunkSize - 1) \div p.chunkSize

\* C24: the pixels of a pass are evaluated at points of the viewport the pass
\* started with: row 0 at maxY, column 0 at minX, and minX <= x < maxX and
\* minY < y <= maxY for every pixel, whatever the bounds have become since.
\* The point is linear in px and py, so the corner pixels of the rows written
\* so far stand for all of them.
C24_SamplesInsideSnapshot ==
  \A i \in DOMAIN passes :
    LET p == passes[i]
        lastRow == p.rows[Len(p.rows)].last
    IN  /\ PlanePoint(p, 0, 0) = [x |-> p.minX, y |-> p.maxY]
        /\ \A px \in { 0, p.width - 1 }, py \in { 0, lastRow } :
             LET pt == PlanePoint(p, px, py)
             IN  /\ ~RLess(pt.x, p.minX)
                 /\ RLess(pt.x, p.maxX)
                 /\ RLess(p.minY, pt.y)
                 /\ ~RLess(p.maxY, pt.y)

\* C26: the state getInitialState makes of a URL hash has a formula, a colour
\* scheme and an aspect ratio of the lists, 100 <= resolution <= 18000,
\* 10 <= maxIter <= 200 and moderate bounds; each field is the parsed value
\* when that passes its validation and the default when it does not,
\* whatever the other fields are.
C26_FieldwiseValidation ==
  (probe.op = "getInitialState" /\ probe.done) =>
    LET h == probe.args[1]
        st == probe.result
        decoded == decodeURIComponent(h.f)
        okRes == h.res.kind = "num" /\ h.res.v >= 100 /\ h.res.v <= 18000
        okF == h.f # << >> /\ decoded.ok /\ KeyOf(decoded.text) \in VALID_FORMULAS
        okIter == h.iter.kind = "num" /\ h.iter.v >= 10 /\ h.iter.v <= 200
        Bound(x, dflt) == IF x.kind = "num" THEN x.v ELSE dflt
    IN  /\ st.formula \in VALID_FORMULAS
        /\ st.colorScheme \in VALID_COLOR_SCHEMES
        /\ st.aspectRatio \in VALID_ASPECT_RATIOS
        /\ st.resolution \in 100..18000
        /\ st.maxIter \in 10..200
        /\ st.resolution = IF okRes THEN h.res.v ELSE defaults.resolution
        /\ st.formula = IF okF THEN KeyOf(decoded.text) ELSE defaults.formula
        /\ st.maxIter = IF okIter THEN h.iter.v ELSE defaults.maxIter
        /\ st.colorScheme = IF h.color \in VALID_COLOR_SCHEMES THEN h.color
                            ELSE defaults.colorScheme
        /\ st.aspectRatio = IF h.aspect \in VALID_ASPECT_RATIOS THEN h.aspect
                            ELSE defaults.aspectRatio
        /\ st.evenIterOnly = (h.even \in { "true", "1" })
        /\ st.bounds = [ minX |-> Bound(h.x1, defaults.bounds.minX),
                         maxX |-> Bound(h.x2, defaults.bounds.maxX),
                         minY |-> Bound(h.y1, defaults.bounds.minY),
                         maxY |-> Bound(h.y2, defaults.bounds.maxY) ]

\* C25: once the state has changed, the first time included, the URL hash
\* encodes the current formula, resolution, aspect ratio, maxIter, colour
\* scheme, evenIterOnly and bounds.
C25_HashFollowsState ==
  (probe.op = "share" /\ probe.result.changed) =>
    probe.result.hash = WriteHash(probe.result.view)

\* C27: getInitialState makes of the hash the watcher wrote the formula,
\* resolution, aspect ratio, maxIter, colour scheme and evenIterOnly of the
\* view, and its bounds rounded to ten decimals.
C27_SharedViewRoundTrips ==
  (probe.op = "share" /\ probe.result.opened # NotOpened) =>
    LET v == probe.result.view
        st == probe.result.opened.state
        Rounded(x) == [of |-> x, scale |-> v.scale, rounded |-> ~TenDecimals(x, v.scale)]
    IN  /\ st.formula = v.formula
        /\ st.resolution = v.resolution
        /\ st.aspectRatio = v.aspectRatio
        /\ st.maxIter = v.maxIter
        /\ st.colorScheme = v.colorScheme
        /\ st.evenIterOnly = v.evenIterOnly
        /\ st.bounds = [k \in DOMAIN v.bounds |-> Rounded(v.bounds[k])]

\* C28: a pass whose last progress value is 100 has put its image on the
\* canvas.
C28_HundredOnlyAfterCommit ==
  \A i \in DOMAIN passes : Last(passes[i].reported) = 100 => Committed(i)

\* C29: the progress shown does not decrease in a step that starts no pass.
C29_SharedProgressMonotone ==
  [][Len(passes') = Len(passes) => progress' >= progress]_vars

\* C30: isRendering is not left true when no pass is running: once the
\* component is mounted and no pass is in flight, isRendering is false.
C30_IdleAfterFailure == (mounted /\ InFlight = {}) => ~isRendering

\* C18: from a root with a non-zero derivative the loop ends with the count 1,
\* the stagnation test firing at the first step at which it is evaluated, for
\* every maxIter >= 2.
C18_RootConvergesAtOnce ==
  (probe.op = "pixel" /\ probe.args[1] \in PolynomialKeys /\ probe.done
     /\ EvalF(probe.args[1], probe.args[2]) = CInt(0, 0))
    => /\ probe.result.st.exit = "stagnation"
       /\ probe.result.st.iterations = 1

\* the loop started at (1, 0) under z^3 - 1 with maxIter 2 has ended with the
\* count 1
C18_Witness ==
  /\ probe.op = "pixel"
  /\ probe.args = << "z^3 - 1", CInt(1, 0), 2 >>
  /\ probe.done
  /\ probe.result.st.iterations = 1
  /\ probe.result.z = CInt(1, 0)

====
